---- MODULE Spec2Model ----
(***************************************************************************)
(* Verification model of the yoga sequence builder web client.             *)
(*                                                                         *)
(* Playback (Spec): the public sequence playback timer, PublicSequenceView *)
(* in src/components/Profile.tsx.  Wall-clock time is counted in units of  *)
(* 50 ms; playback speed in halves (1 = 0.5x, 2 = 1x, ...); the playback   *)
(* position in units of 25 ms, so that                                     *)
(*    elapsed / 1000 * playbackSpeed                                       *)
(* is the integer product (now - lastUpdateTime) * playbackSpeed.          *)
(* A React event handler and the re-render it causes are two steps: the    *)
(* handler records in "dirty" which effects have a changed dependency,     *)
(* and Commit runs those effects.                                          *)
(*                                                                         *)
(* Sign-in (SpecAuth): signIn of src/lib/auth.tsx, one step per await.     *)
(* Public profile (SpecPublicProfile): loadProfile of PublicProfile.tsx.   *)
(* Own profile (SpecProfile): loading and saving in Profile, over the      *)
(* user_profiles table and src/lib/userProfileService.ts, with other       *)
(* clients writing to the same table.                                      *)
(* Profile saves (SpecProfileSaves): the saves of the edit form, the       *)
(* schedule and the photo, for a user who has no row yet.                  *)
(* Playlists (SpecPlaylists): the playlist inputs of the edit form.        *)
(* Custom link (SpecCustomLink): validateSlug on every link typed.         *)
(* Variations (SpecVariations): create, update and delete of               *)
(* poseVariationService over the pose_variations table.                    *)
(* Cues (SpecCues, SpecBatch, SpecScript): generateTransitionalCues on     *)
(* every answer of the LLM, batchGenerateCues in units of 250 ms, and      *)
(* the script that stores cues for the variations that have none.          *)
(* Export (SpecExport): the export script from its command line and        *)
(* environment to the file it writes.                                      *)
(* Sequences (SpecSequences): the reads of sequenceService under the       *)
(* SELECT policy in force on the sequences table.                          *)
(* Auth provider (SpecAuthProvider): the effect of AuthProvider, with      *)
(* every request it sends answered (weak fairness of the responses).       *)
(* Watched playback (SpecWatched): the playback steps of Spec, followed    *)
(* with what the speech synthesizer is uttering and with the last Play     *)
(* that no pause, seek, reset or speed change has interrupted.             *)
(* Images (SpecImages): uploadImage and deleteImage of                     *)
(* poseVariationService over the pose-images bucket and the image_url      *)
(* column, one step per await, each request free to fail.                  *)
(***************************************************************************)
EXTENDS Integers, Sequences, FiniteSets, TLC

\* ---------------------------------------------------------------- bounds
MaxClock == 5
MaxLate == 1
MaxRenderDelay == 1
MaxSpeed == 2
MaxClicks == 3
\* Playlists in the list of the edit form
MaxPlaylists == 2
\* Elements of the JSON array an LLM answers with
MaxArray == 4
\* Pose variations handed to batchGenerateCues
MaxVariations == 2
\* Time the batch is watched for, in units of 250 ms
MaxCueClock == 3
\* Arguments on the export script's command line after the script's path
MaxArgs == 3
\* Auth events (sign-in, token refresh, sign-out by the user) in one run
MaxAuthEvents == 2
\* Readings of Date.now() that uploadImage can put in a file name
MaxImageClock == 2
\* uploadImage and deleteImage calls in progress at one time
MaxImageCalls == 2

\* ------------------------------------------------------ program constants
intervalMs == 2
SpeakDelayTick == 1
SpeakDelayStart == 2
\* setTimeout(resolve, 500) of batchGenerateCues, in units of 250 ms
RateLimitDelay == 2

null == "null"

VARIABLES
    \* environment
    clock, mounted, sequence, timers, dirty,
    \* React state of PublicSequenceView
    isPlaying, currentTime, activeItemId, currentItemRemaining, playbackSpeed,
    \* refs
    intervalRef, timelineRef, lastUpdateTimeRef, lastSpokenItemIdRef,
    speechSynthesisRef, activeItemIdRef,
    \* history
    clicks, userOp, owed, strayAnnounce,
    \* the pose the synthesizer is uttering, and the Play that playback has
    \* run from without interruption (its clock reading and position)
    utterance, playedFrom

\* The hosted database: user_profiles, one row per user at most
VARIABLES user_profiles

\* AuthProvider.signIn, one call in progress at most
VARIABLES authPc, authUser, authValid, session, signInError, authSeen

\* PublicProfile
VARIABLES shareId, loads, ppProfile, profileUserId, ppLoading, lastLoad

\* Profile of the signed-in owner
VARIABLES userId, pfPc, profile, editedProfile, isEditing, slugError, loading,
          updateCalls, thrown

\* The hosted database: pose_variations, one row per variation id
VARIABLES pose_variations

\* generateTransitionalCues of lib/llmService: the call it was given and what
\* the call resolved to
VARIABLES call

\* batchGenerateCues of lib/llmService: its arguments, its loop and its
\* results; cueClock counts units of 250 ms and requests is the history of
\* the LLM requests it issued
\* scripts/generate-transitional-cues.ts: the rows it fetched, the ids it
\* processes, its place in the saving loop and the updates it has issued
VARIABLES scriptPc, fetched, variationsToProcess, saveI, issued

VARIABLES cueClock, batchPc, variations, config, batchI, results, delayDue,
          requests, resolvedAt

\* The export script: its command line and environment, where it stands,
\* whether a query was sent, its exit status and the file it wrote
VARIABLES argv, env, exportPc, contacted, exitCode, written

\* The sequences table, the SELECT policy in force on it, who is signed in
\* (auth.uid()), and the last sequenceService read: what was asked, by whom,
\* under which policy, and the rows it returned
VARIABLES sequences, policy, authUid, read

\* AuthProvider's effect: the context's user and loading, the session the
\* Supabase client holds, where the effect stands, the ban lookups and the
\* signOut calls in flight, how many auth events the browser has produced,
\* the users a lookup has found banned since their session was last seen,
\* and how the last signOut called for each user ended since the last sign-in
VARIABLES user, authLoading, clientSession, providerPc, lookups, signOuts,
          authEvents, foundBanned, lastSignOut

\* The pose-images bucket, the image_url column of pose_variations, the
\* uploadImage and deleteImage calls in progress, the reading of Date.now(),
\* and whether a deleteImage call has thrown after removing its object
VARIABLES bucket, image_url, imageCalls, imageNow, removeUnrecorded

dbvars == <<user_profiles>>
vvars == <<pose_variations>>
cvars == <<call>>
svars == <<scriptPc, fetched, variationsToProcess, saveI, issued>>
xvars == <<argv, env, exportPc, contacted, exitCode, written>>
bvars == <<cueClock, batchPc, variations, config, batchI, results, delayDue,
           requests, resolvedAt>>
avars == <<authPc, authUser, authValid, session, signInError, authSeen>>
qvars == <<shareId, loads, ppProfile, profileUserId, ppLoading, lastLoad>>
fvars == <<userId, pfPc, profile, editedProfile, isEditing, slugError, loading,
           updateCalls, thrown>>

pvars == <<clock, mounted, sequence, timers, dirty,
           isPlaying, currentTime, activeItemId, currentItemRemaining,
           playbackSpeed, intervalRef, timelineRef, lastUpdateTimeRef,
           lastSpokenItemIdRef, speechSynthesisRef, activeItemIdRef,
           clicks, userOp, owed, strayAnnounce, utterance, playedFrom>>
wvars == <<utterance, playedFrom>>

\* The parts that have a specification of their own further down
rvars == <<sequences, policy, authUid, read>>
gvars == <<user, authLoading, clientSession, providerPc, lookups, signOuts,
           authEvents, foundBanned, lastSignOut>>
ivars == <<bucket, image_url, imageCalls, imageNow, removeUnrecorded>>
later == <<xvars, rvars, gvars, ivars>>
added == <<vvars, cvars, bvars, svars, later>>

vars == <<pvars, dbvars, avars, qvars, fvars, added>>

\* What each part of the program leaves alone
notPlayback == <<dbvars, avars, qvars, fvars, added>>
notAuth == <<pvars, qvars, fvars, added>>
notPublic == <<pvars, avars, fvars, added>>
notProfile == <<pvars, avars, qvars, added>>
notDb == <<pvars, avars, qvars, fvars, added>>
client == <<pvars, dbvars, avars, qvars, fvars>>
notVariations == <<client, cvars, bvars, svars, later>>
notCues == <<client, vvars, bvars, svars, later>>
notBatch == <<client, vvars, cvars, svars, later>>
notScript == <<client, cvars, later>>
notExport == <<client, vvars, cvars, bvars, svars, rvars, gvars, ivars>>
notSequences == <<client, vvars, cvars, bvars, svars, xvars, gvars, ivars>>
notProvider == <<pvars, avars, qvars, fvars, vvars, cvars, bvars, svars, xvars, rvars,
                 ivars>>
notImages == <<client, vvars, cvars, bvars, svars, xvars, rvars, gvars>>

SpeedOptions == 1..MaxSpeed

\* Sequences offered to the view: each is the list of the durations of its
\* pose instances after groups and rounds are unrolled.
SequenceChoices == { <<>>, <<4, 6, 2>>, <<6, 0>> }

ItemIds == {"p1", "p2", "p3"}

ItemName(i) == IF i = 1 THEN "p1" ELSE IF i = 2 THEN "p2" ELSE "p3"

RECURSIVE SumTo(_, _)
SumTo(durations, n) == IF n = 0 THEN 0 ELSE SumTo(durations, n - 1) + durations[n]

flattenSequenceToTimeline(seq) ==
    [i \in 1..Len(seq) |->
        [id |-> ItemName(i), startTime |-> SumTo(seq, i - 1), endTime |-> SumTo(seq, i)]]

TotalDuration(timeline) ==
    IF Len(timeline) > 0 THEN timeline[Len(timeline)].endTime ELSE 0

Contains(item, t) == t >= item.startTime /\ t < item.endTime

\* Array.prototype.find: the first item whose interval contains t, or 0
FindIndex(timeline, t) ==
    IF \E i \in 1..Len(timeline) : Contains(timeline[i], t)
    THEN CHOOSE i \in 1..Len(timeline) :
            /\ Contains(timeline[i], t)
            /\ \A j \in 1..(i - 1) : ~Contains(timeline[j], t)
    ELSE 0

Max(a, b) == IF a >= b THEN a ELSE b

\* ------------------------------------------------------------ timer queue
SpeakTimer(item, due) == [kind |-> "speak", id |-> 0, due |-> due, item |-> item, speed |-> 0]
IntervalTimer(id, due, speed) == [kind |-> "interval", id |-> id, due |-> due, item |-> null, speed |-> speed]

FreshId(ts) ==
    CHOOSE n \in 1..(Len(ts) + 1) :
        /\ \A i \in 1..Len(ts) : ~(ts[i].kind = "interval" /\ ts[i].id = n)
        /\ \A m \in 1..(n - 1) : \E i \in 1..Len(ts) : ts[i].kind = "interval" /\ ts[i].id = m

IsOtherTimer(t, id) == ~(t.kind = "interval" /\ t.id = id)

clearInterval(ts, id) == SelectSeq(ts, LAMBDA t : IsOtherTimer(t, id))

RemoveAt(ts, i) == [j \in 1..(Len(ts) - 1) |-> IF j < i THEN ts[j] ELSE ts[j + 1]]

\* Timers run in order of due time, and in order of creation among equals.
CanFire(i) ==
    /\ timers[i].due <= clock
    /\ \A j \in 1..Len(timers) :
          j # i => \/ timers[j].due > timers[i].due
                   \/ (timers[j].due = timers[i].due /\ j > i)

LiveIntervals(ts) == { i \in 1..Len(ts) : ts[i].kind = "interval" }
PendingSpeech(ts) == { i \in 1..Len(ts) : ts[i].kind = "speak" }

\* ------------------------------------------------- the component as a record
View ==
    [isPlaying |-> isPlaying, currentTime |-> currentTime,
     activeItemId |-> activeItemId, currentItemRemaining |-> currentItemRemaining,
     playbackSpeed |-> playbackSpeed, intervalRef |-> intervalRef,
     timelineRef |-> timelineRef, lastUpdateTimeRef |-> lastUpdateTimeRef,
     lastSpokenItemIdRef |-> lastSpokenItemIdRef, activeItemIdRef |-> activeItemIdRef,
     timers |-> timers]

\* Which effects have a changed dependency after a render of "new" that
\* follows a render of "old".
DirtyOf(old, new) ==
    (IF new.activeItemId # old.activeItemId THEN {"sync"} ELSE {})
    \cup (IF new.currentTime # old.currentTime \/ new.isPlaying # old.isPlaying
          THEN {"init"} ELSE {})
    \cup (IF \/ new.isPlaying # old.isPlaying
             \/ new.playbackSpeed # old.playbackSpeed
             \/ new.currentTime # old.currentTime
          THEN {"timer"} ELSE {})

Store(v) ==
    /\ isPlaying' = v.isPlaying
    /\ currentTime' = v.currentTime
    /\ activeItemId' = v.activeItemId
    /\ currentItemRemaining' = v.currentItemRemaining
    /\ playbackSpeed' = v.playbackSpeed
    /\ intervalRef' = v.intervalRef
    /\ timelineRef' = v.timelineRef
    /\ lastUpdateTimeRef' = v.lastUpdateTimeRef
    /\ lastSpokenItemIdRef' = v.lastSpokenItemIdRef
    /\ activeItemIdRef' = v.activeItemIdRef
    /\ timers' = v.timers

\* ------------------------------------------------------------- the effects
\* useEffect(() => { activeItemIdRef.current = activeItemId }, [activeItemId])
SyncRefEffect(v, r) == [v EXCEPT !.activeItemIdRef = r.activeItemId]

\* "Initialize timeline when sequence is selected or state is restored"
TimelineInitEffect(v, r) ==
    LET timeline == flattenSequenceToTimeline(sequence)
        i == FindIndex(timeline, r.currentTime)
        v1 == [v EXCEPT !.timelineRef = timeline]
    IN  IF Len(timeline) = 0 THEN v1
        ELSE IF i # 0
        THEN [v1 EXCEPT !.activeItemId = timeline[i].id,
                        !.currentItemRemaining = Max(0, timeline[i].endTime - r.currentTime)]
        ELSE IF r.currentTime >= TotalDuration(timeline)
        THEN [v1 EXCEPT !.activeItemId = null,
                        !.currentItemRemaining = 0,
                        !.isPlaying = IF r.isPlaying THEN FALSE ELSE @]
        ELSE [v1 EXCEPT !.activeItemId = null, !.currentItemRemaining = 0]

\* ClearTimerHandle forgetting clearInterval: the ref is nulled, the
\* interval keeps running.
ClearTimerHandleRefOnly(v) ==
    IF v.intervalRef # 0 THEN [v EXCEPT !.intervalRef = 0] ELSE v

\* The cleanup returned by the previous run of the timer effect, and the
\* else branch of the effect: both clear the interval the ref holds.
ClearTimerHandle(v) ==
    IF v.intervalRef # 0
    THEN [v EXCEPT !.timers = clearInterval(@, v.intervalRef), !.intervalRef = 0]
    ELSE v

\* TimerEffect whose interval is left running when playback is not on.
TimerEffectNoStop(v, r, now) ==
    LET c == ClearTimerHandle(v)
        id == FreshId(c.timers)
    IN  IF r.isPlaying
        THEN [c EXCEPT !.lastUpdateTimeRef = now,
                       !.timers = Append(@, IntervalTimer(id, now + intervalMs, r.playbackSpeed)),
                       !.intervalRef = id]
        ELSE v

\* "Timer effect with speed control and tab visibility handling"
TimerEffect(v, r, now) ==
    LET c == ClearTimerHandle(v)
        timeline == c.timelineRef
        fromZero == /\ r.currentTime = 0
                    /\ Len(timeline) > 0
                    /\ timeline[1].startTime = 0
        c1 == IF c.intervalRef = 0
              THEN [c EXCEPT !.lastUpdateTimeRef = now]
              ELSE c
        c2 == IF c.intervalRef = 0 /\ fromZero
              THEN [c1 EXCEPT
                      !.activeItemId = timeline[1].id,
                      !.currentItemRemaining = timeline[1].endTime - timeline[1].startTime,
                      !.activeItemIdRef = timeline[1].id,
                      !.timers = Append(@, SpeakTimer(timeline[1].id, now + SpeakDelayStart))]
              ELSE c1
        id == FreshId(c2.timers)
    IN  IF r.isPlaying
        THEN [c2 EXCEPT !.timers = Append(@, IntervalTimer(id, now + intervalMs, r.playbackSpeed)),
                        !.intervalRef = id]
        ELSE c

\* One render: the effects with a changed dependency run in the order of
\* their definition, each seeing the rendered state r.
RunRound(v, d, now) ==
    LET a == IF "sync" \in d THEN SyncRefEffect(v, v) ELSE v
        b == IF "init" \in d THEN TimelineInitEffect(a, v) ELSE a
    IN  IF "timer" \in d THEN TimerEffect(b, v, now) ELSE b

\* State set by an effect renders again, until nothing changes.
RunEffects(v, d, now) ==
    LET v1 == RunRound(v, d, now)
        v2 == RunRound(v1, DirtyOf(v, v1), now)
    IN  RunRound(v2, DirtyOf(v1, v2), now)

\* ------------------------------------------------------------ the handlers
handlePlayPause(v, now) ==
    LET timeline == flattenSequenceToTimeline(sequence)
        fromZero == /\ v.currentTime = 0
                    /\ Len(timeline) > 0
                    /\ timeline[1].startTime = 0
        s1 == [v EXCEPT !.timelineRef = timeline,
                        !.lastUpdateTimeRef = now,
                        !.lastSpokenItemIdRef = null]
        s2 == IF fromZero
              THEN [s1 EXCEPT
                      !.activeItemId = timeline[1].id,
                      !.currentItemRemaining = timeline[1].endTime - timeline[1].startTime,
                      !.activeItemIdRef = timeline[1].id]
              ELSE s1
        p1 == [v EXCEPT !.lastUpdateTimeRef = now]
    IN  IF ~v.isPlaying
        THEN [s2 EXCEPT !.isPlaying = TRUE]
        ELSE [p1 EXCEPT !.isPlaying = FALSE]

\* handleReset leaving the last-spoken marker as it is.
handleResetKeepsMarker(v, now) ==
    [v EXCEPT !.isPlaying = FALSE,
              !.currentTime = 0,
              !.activeItemId = null,
              !.currentItemRemaining = 0,
              !.lastUpdateTimeRef = now]

handleReset(v, now) ==
    [v EXCEPT !.isPlaying = FALSE,
              !.currentTime = 0,
              !.activeItemId = null,
              !.currentItemRemaining = 0,
              !.lastUpdateTimeRef = now,
              !.lastSpokenItemIdRef = null]

handleSpeedChange(v, speed, now) ==
    [v EXCEPT !.playbackSpeed = speed, !.lastUpdateTimeRef = now]

\* handleSkipToTime finding the item with "startTime <= item.endTime".
handleSkipToTimeInclusive(v, startTime, now) ==
    LET timeline == v.timelineRef
        hits == { j \in 1..Len(timeline) :
                    startTime >= timeline[j].startTime /\ startTime <= timeline[j].endTime }
        i == IF hits = {} THEN 0 ELSE CHOOSE j \in hits : \A k \in hits : j <= k
        v1 == [v EXCEPT !.currentTime = startTime, !.lastUpdateTimeRef = now]
    IN  IF i = 0 THEN [v1 EXCEPT !.activeItemId = null, !.currentItemRemaining = 0]
        ELSE [v1 EXCEPT
                !.activeItemId = timeline[i].id,
                !.currentItemRemaining = Max(0, timeline[i].endTime - startTime),
                !.activeItemIdRef = timeline[i].id,
                !.lastSpokenItemIdRef = null]

handleSkipToTime(v, startTime, now) ==
    LET timeline == v.timelineRef
        i == FindIndex(timeline, startTime)
        v1 == [v EXCEPT !.currentTime = startTime, !.lastUpdateTimeRef = now]
    IN  IF Len(timeline) = 0 THEN v1
        ELSE IF i # 0
        THEN [v1 EXCEPT
                !.activeItemId = timeline[i].id,
                !.currentItemRemaining = Max(0, timeline[i].endTime - startTime),
                !.activeItemIdRef = timeline[i].id,
                !.lastSpokenItemIdRef = null,
                !.timers = IF v.isPlaying /\ speechSynthesisRef
                           THEN Append(@, SpeakTimer(timeline[i].id, now + SpeakDelayStart))
                           ELSE @]
        ELSE [v1 EXCEPT !.activeItemId = null, !.currentItemRemaining = 0]

\* updateTimer adding a fixed step per tick instead of the elapsed time.
updateTimerFixedStep(v, speed, now) ==
    LET newTime == v.currentTime + intervalMs * speed
        timeline == v.timelineRef
        i == FindIndex(timeline, newTime)
        v1 == [v EXCEPT !.lastUpdateTimeRef = now]
    IN  IF i # 0
        THEN [v1 EXCEPT !.currentTime = newTime,
                        !.activeItemId = timeline[i].id,
                        !.currentItemRemaining = Max(0, timeline[i].endTime - newTime)]
        ELSE IF newTime >= TotalDuration(timeline)
        THEN [v1 EXCEPT !.isPlaying = FALSE,
                        !.activeItemId = null,
                        !.currentItemRemaining = 0,
                        !.currentTime = TotalDuration(timeline)]
        ELSE [v1 EXCEPT !.currentTime = newTime,
                        !.activeItemId = null,
                        !.currentItemRemaining = 0]

\* updateTimer returning newTime where it should return totalDuration.
updateTimerNoClamp(v, speed, now) ==
    LET newTime == v.currentTime + (now - v.lastUpdateTimeRef) * speed
        timeline == v.timelineRef
        i == FindIndex(timeline, newTime)
        v1 == [v EXCEPT !.lastUpdateTimeRef = now]
    IN  IF i # 0
        THEN [v1 EXCEPT !.currentTime = newTime,
                        !.activeItemId = timeline[i].id,
                        !.currentItemRemaining = Max(0, timeline[i].endTime - newTime)]
        ELSE IF newTime >= TotalDuration(timeline)
        THEN [v1 EXCEPT !.isPlaying = FALSE,
                        !.activeItemId = null,
                        !.currentItemRemaining = 0,
                        !.currentTime = newTime]
        ELSE [v1 EXCEPT !.currentTime = newTime,
                        !.activeItemId = null,
                        !.currentItemRemaining = 0]

\* The interval callback; speed is the playbackSpeed its closure captured.
updateTimer(v, speed, now) ==
    LET elapsed == now - v.lastUpdateTimeRef
        timeIncrement == elapsed * speed
        newTime == v.currentTime + timeIncrement
        timeline == v.timelineRef
        i == FindIndex(timeline, newTime)
        totalDuration == TotalDuration(timeline)
        v1 == [v EXCEPT !.lastUpdateTimeRef = now]
    IN  IF i # 0
        THEN [v1 EXCEPT
                !.currentTime = newTime,
                !.activeItemId = timeline[i].id,
                !.currentItemRemaining = Max(0, timeline[i].endTime - newTime),
                !.timers = IF v.activeItemIdRef # timeline[i].id
                           THEN Append(@, SpeakTimer(timeline[i].id, now + SpeakDelayTick))
                           ELSE @]
        ELSE IF newTime >= totalDuration
        THEN [v1 EXCEPT !.isPlaying = FALSE,
                        !.activeItemId = null,
                        !.currentItemRemaining = 0,
                        !.currentTime = totalDuration]
        ELSE [v1 EXCEPT !.currentTime = newTime,
                        !.activeItemId = null,
                        !.currentItemRemaining = 0]

\* speakPoseName: TRUE when the utterance is actually spoken
Speaks(v, item) == speechSynthesisRef /\ item # v.lastSpokenItemIdRef

speakPoseName(v, item) ==
    IF Speaks(v, item) THEN [v EXCEPT !.lastSpokenItemIdRef = item] ELSE v

\* ------------------------------------------------------------------ state
Constructed(seq) ==
    [isPlaying |-> FALSE, currentTime |-> 0, activeItemId |-> null,
     currentItemRemaining |-> 0, playbackSpeed |-> 2, intervalRef |-> 0,
     timelineRef |-> <<>>, lastUpdateTimeRef |-> 0, lastSpokenItemIdRef |-> null,
     activeItemIdRef |-> null, timers |-> <<>>]

NoOp == [op |-> "none", at |-> 0, waited |-> FALSE, ticks |-> 0]

InitPlayback ==
    /\ clock = 0
    /\ mounted = TRUE
    /\ sequence \in SequenceChoices
    /\ speechSynthesisRef \in BOOLEAN
    /\ dirty = {}
    /\ clicks = 0
    /\ userOp = NoOp
    /\ owed = [item \in ItemIds |-> 0]
    /\ strayAnnounce = FALSE
    /\ \E v \in {RunEffects(Constructed(sequence), {"sync", "init", "timer"}, 0)} :
          /\ isPlaying = v.isPlaying
          /\ currentTime = v.currentTime
          /\ activeItemId = v.activeItemId
          /\ currentItemRemaining = v.currentItemRemaining
          /\ playbackSpeed = v.playbackSpeed
          /\ intervalRef = v.intervalRef
          /\ timelineRef = v.timelineRef
          /\ lastUpdateTimeRef = v.lastUpdateTimeRef
          /\ lastSpokenItemIdRef = v.lastSpokenItemIdRef
          /\ activeItemIdRef = v.activeItemIdRef
          /\ timers = v.timers

NoStart == [on |-> FALSE, at |-> 0, from |-> 0]

\* Nothing is being uttered and no Play is followed
InitWatch == utterance = null /\ playedFrom = NoStart

Idle == mounted /\ dirty = {}

\* a viewer's click or selection
UserEvent == Idle /\ clicks < MaxClicks

Handled(new, op) ==
    /\ Store(new)
    /\ dirty' = DirtyOf(View, new)
    /\ userOp' = [op |-> op, at |-> clock, waited |-> (clock > lastUpdateTimeRef), ticks |-> 0]
    /\ clicks' = clicks + 1
    /\ UNCHANGED <<clock, mounted, sequence, speechSynthesisRef, strayAnnounce>>
    /\ UNCHANGED notPlayback

\* An item became the active one during playback: one announcement is owed.
Activated(item) == [owed EXCEPT ![item] = @ + 1]

PlayPauseClick ==
    /\ UserEvent
    /\ LET new == handlePlayPause(View, clock)
       IN  /\ Handled(new, IF isPlaying THEN "pause" ELSE "play")
           /\ owed' = IF ~isPlaying /\ new.activeItemIdRef # null /\ currentTime = 0
                      THEN Activated(new.activeItemIdRef) ELSE owed

ResetClick ==
    /\ UserEvent
    /\ Handled(handleReset(View, clock), "reset")
    /\ UNCHANGED owed

SpeedSelect ==
    /\ UserEvent
    /\ \E speed \in SpeedOptions :
          /\ speed # playbackSpeed
          /\ Handled(handleSpeedChange(View, speed, clock), "speed")
    /\ UNCHANGED owed

\* The rows a viewer can click are the timeline items; each seeks to its start.
SeekTargets == { timelineRef[i].startTime : i \in 1..Len(timelineRef) }

SkipClickTo(t) ==
    /\ UserEvent
    /\ LET new == handleSkipToTime(View, t, clock)
       IN  /\ Handled(new, "seek")
           /\ owed' = IF isPlaying /\ FindIndex(timelineRef, t) # 0
                      THEN Activated(new.activeItemId) ELSE owed

SkipClick == \E t \in SeekTargets : SkipClickTo(t)

Tick ==
    /\ Idle
    /\ \E i \in LiveIntervals(timers) :
          /\ CanFire(i)
          /\ LET again == Append(RemoveAt(timers, i),
                                 IntervalTimer(timers[i].id, clock + intervalMs, timers[i].speed))
                 new == updateTimer([View EXCEPT !.timers = again], timers[i].speed, clock)
             IN  /\ Store(new)
                 /\ dirty' = DirtyOf(View, new)
                 /\ owed' = IF /\ new.activeItemId # null
                               /\ (new.activeItemId # activeItemIdRef \/ new.activeItemId # activeItemId)
                            THEN Activated(new.activeItemId) ELSE owed
    /\ userOp' = IF userOp.op # "none" /\ userOp.ticks = 0
                  THEN [userOp EXCEPT !.ticks = 1]
                  ELSE NoOp
    /\ UNCHANGED <<clock, mounted, sequence, speechSynthesisRef, clicks, strayAnnounce>>
    /\ UNCHANGED notPlayback

Commit ==
    /\ mounted
    /\ dirty # {}
    /\ Store(RunEffects(View, dirty, clock))
    /\ dirty' = {}
    /\ UNCHANGED <<clock, mounted, sequence, speechSynthesisRef, clicks, userOp, owed, strayAnnounce>>
    /\ UNCHANGED notPlayback

SpeakFire ==
    /\ dirty = {}
    /\ \E i \in PendingSpeech(timers) :
          /\ CanFire(i)
          /\ LET item == timers[i].item
                 rest == [View EXCEPT !.timers = RemoveAt(timers, i)]
             IN  /\ Store(speakPoseName(rest, item))
                 /\ owed' = IF Speaks(View, item) /\ owed[item] > 0
                            THEN [owed EXCEPT ![item] = @ - 1] ELSE owed
                 /\ strayAnnounce' = (strayAnnounce \/ (isPlaying /\ Speaks(View, item) /\ owed[item] = 0))
    /\ UNCHANGED <<clock, mounted, sequence, speechSynthesisRef, dirty, clicks, userOp>>
    /\ UNCHANGED notPlayback

Unmount ==
    /\ Idle
    /\ mounted' = FALSE
    /\ Store(ClearTimerHandle(View))
    /\ userOp' = NoOp
    /\ UNCHANGED <<clock, sequence, speechSynthesisRef, dirty, clicks, owed, strayAnnounce>>
    /\ UNCHANGED notPlayback

\* Time passes; it is followed while the view is mounted or a timer is pending.
AdvanceClock ==
    /\ clock < MaxClock
    /\ mounted \/ timers # <<>>
    /\ \A i \in 1..Len(timers) : clock < timers[i].due + MaxLate
    /\ dirty # {} => clock - lastUpdateTimeRef < MaxRenderDelay
    /\ clock' = clock + 1
    /\ UNCHANGED <<mounted, sequence, timers, dirty, isPlaying, currentTime,
                   activeItemId, currentItemRemaining, playbackSpeed, intervalRef,
                   timelineRef, lastUpdateTimeRef, lastSpokenItemIdRef,
                   speechSynthesisRef, activeItemIdRef, clicks, userOp, owed, strayAnnounce>>
    /\ UNCHANGED notPlayback

\* ----- the same steps followed with the synthesizer and the last Play
\* handlePlayPause: a Play starts a stretch of playback, a Pause ends it
WatchedPlayPause ==
    /\ PlayPauseClick
    /\ playedFrom' = IF ~isPlaying THEN [on |-> TRUE, at |-> clock, from |-> currentTime]
                  ELSE NoStart
    /\ UNCHANGED utterance

\* handleReset: speechSynthesisRef.current.cancel() ends the utterance
WatchedReset ==
    /\ ResetClick
    /\ utterance' = null
    /\ playedFrom' = NoStart

WatchedSpeed ==
    /\ SpeedSelect
    /\ playedFrom' = NoStart
    /\ UNCHANGED utterance

WatchedSkip ==
    /\ SkipClick
    /\ playedFrom' = NoStart
    /\ UNCHANGED utterance

WatchedTick == Tick /\ UNCHANGED wvars

WatchedCommit == Commit /\ UNCHANGED wvars

\* speakPoseName: cancel() and speak(utterance) replace what is being
\* uttered by the pose it speaks
WatchedSpeak ==
    /\ SpeakFire
    /\ utterance' = IF lastSpokenItemIdRef' # lastSpokenItemIdRef
                    THEN lastSpokenItemIdRef' ELSE utterance
    /\ UNCHANGED playedFrom

\* The synthesizer comes to the end of the utterance
UtteranceEnds ==
    /\ utterance # null
    /\ utterance' = null
    /\ UNCHANGED <<clock, mounted, sequence, timers, dirty, isPlaying, currentTime,
                   activeItemId, currentItemRemaining, playbackSpeed, intervalRef,
                   timelineRef, lastUpdateTimeRef, lastSpokenItemIdRef,
                   speechSynthesisRef, activeItemIdRef, clicks, userOp, owed,
                   strayAnnounce, playedFrom>>
    /\ UNCHANGED notPlayback

WatchedUnmount == Unmount /\ UNCHANGED wvars

WatchedClock == AdvanceClock /\ UNCHANGED wvars

NextWatched ==
    \/ WatchedPlayPause
    \/ WatchedReset
    \/ WatchedSpeed
    \/ WatchedSkip
    \/ WatchedTick
    \/ WatchedCommit
    \/ WatchedSpeak
    \/ UtteranceEnds
    \/ WatchedUnmount
    \/ WatchedClock

NextPlayback ==
    \/ PlayPauseClick
    \/ ResetClick
    \/ SpeedSelect
    \/ SkipClick
    \/ Tick
    \/ Commit
    \/ SpeakFire
    \/ Unmount
    \/ AdvanceClock


\* ==================================================== the hosted database
Users == {"u1", "u2"}
CustomSlugs == {"yoga", "zen"}
\* No row for a user, the null a lookup returns, and the null profile of a
\* component are records of the shape of the value they stand in for.
\* The value of input.events and of input.spotify_playlist_urls when the
\* caller leaves the field out
UndefinedEvents == <<[id |-> "undefined", dayOfWeek |-> 0]>>
UndefinedUrls == <<"undefined">>
NoRow == [share_id |-> null, name |-> "", is_banned |-> FALSE, events |-> <<>>,
          profile_photo_url |-> null, spotify_playlist_urls |-> <<>>, exists |-> FALSE]
NoData == [user_id |-> "none", row |-> NoRow]
NoProfile == [name |-> "null", shareId |-> "null"]
Undefined == "undefined"

TakenMessage == "This custom link is already taken. Please choose another."
BannedMessage == "Your account has been banned. Please contact support if you believe this is an error."
SaveFallbackMessage == "Failed to save profile. Please try again."

NoError == [code |-> "none", message |-> "none"]
ShareIdViolation == [code |-> "23505", message |-> "duplicate key value violates unique constraint user_profiles_share_id_key"]
UserIdViolation == [code |-> "23505", message |-> "duplicate key value violates unique constraint user_profiles_user_id_key"]
NoRowsError == [code |-> "PGRST116", message |-> "JSON object requested, multiple (or no) rows returned"]
FetchError == [code |-> "", message |-> "TypeError: Failed to fetch"]
EmptyError == [code |-> "", message |-> ""]

\* A request either reaches the database or fails on the way.
Transports == {NoError, FetchError, EmptyError}

\* error.message.includes('share_id')
IncludesShareId(message) == message = ShareIdViolation.message

\* x || null
OrNull(x) == IF x = "" \/ x = Undefined THEN null ELSE x

HeldByOther(table, u, share) ==
    /\ share # null
    /\ \E v \in Users \ {u} : table[v] # NoRow /\ table[v].share_id = share

\* CREATE TABLE user_profiles: user_id UNIQUE, share_id TEXT UNIQUE
InsertViolations(table, u, share) ==
    (IF table[u] # NoRow THEN {UserIdViolation} ELSE {})
    \cup (IF share # null /\ \E v \in Users : table[v] # NoRow /\ table[v].share_id = share
          THEN {ShareIdViolation} ELSE {})

\* UPDATE user_profiles SET ... WHERE user_id = u, then .select().single()
DbUpdate(table, u, updateData) ==
    IF table[u] = NoRow
    THEN [table |-> table, error |-> NoRowsError]
    ELSE LET row == [share_id |-> IF updateData.share_id = Undefined
                                  THEN table[u].share_id ELSE updateData.share_id,
                     name |-> IF updateData.name = Undefined
                              THEN table[u].name ELSE updateData.name,
                     is_banned |-> IF updateData.is_banned = Undefined
                                   THEN table[u].is_banned ELSE updateData.is_banned = "true",
                     events |-> IF updateData.events = UndefinedEvents
                                THEN table[u].events ELSE updateData.events,
                     profile_photo_url |-> IF updateData.profile_photo_url = Undefined
                                           THEN table[u].profile_photo_url
                                           ELSE updateData.profile_photo_url,
                     spotify_playlist_urls |-> table[u].spotify_playlist_urls,
                     exists |-> TRUE]
         IN  IF HeldByOther(table, u, row.share_id)
             THEN [table |-> table, error |-> ShareIdViolation]
             ELSE [table |-> [table EXCEPT ![u] = row], error |-> NoError]

\* ThrownBy without the check: the error of the database is thrown as it is.
ThrownByRaw(error) == error.message

\* The "23505 and share_id" check of create and update
ThrownBy(error) ==
    IF error.code = "23505" /\ IncludesShareId(error.message)
    THEN TakenMessage
    ELSE error.message

\* An UpdateUserProfileInput with every field left out
NoInput ==
    [share_id |-> Undefined, name |-> Undefined, is_banned |-> Undefined,
     events |-> UndefinedEvents, profile_photo_url |-> Undefined,
     spotify_playlist_urls |-> UndefinedUrls]

\* userProfileService.update; result.thrown is the message of the error
\* thrown, or "none". updateData has no spotify_playlist_urls: the function
\* copies the eight fields of UpdateUserProfileInput and no other.
update(table, u, input, transport) ==
    LET updateData == [share_id |-> IF input.share_id = Undefined
                                    THEN Undefined ELSE OrNull(input.share_id),
                       name |-> input.name,
                       is_banned |-> input.is_banned,
                       events |-> input.events,
                       profile_photo_url |-> IF input.profile_photo_url = Undefined
                                             THEN Undefined
                                             ELSE OrNull(input.profile_photo_url)]
        done == IF transport = NoError
                THEN DbUpdate(table, u, updateData)
                ELSE [table |-> table, error |-> transport]
    IN  [table |-> done.table,
         thrown |-> IF done.error = NoError THEN "none" ELSE ThrownBy(done.error)]

\* userProfileService.create; reported is the constraint the database
\* reports when the insert violates one
create(table, input, transport, reported) ==
    LET share == OrNull(input.share_id)
        \* the columns the insert leaves out take their DEFAULT
        row == [share_id |-> share, name |-> input.name, is_banned |-> FALSE,
                events |-> <<>>, profile_photo_url |-> null,
                spotify_playlist_urls |-> <<>>, exists |-> TRUE]
        error == IF transport # NoError THEN transport
                 ELSE IF InsertViolations(table, input.user_id, share) # {} THEN reported
                 ELSE NoError
    IN  [table |-> IF error = NoError THEN [table EXCEPT ![input.user_id] = row] ELSE table,
         thrown |-> IF error = NoError THEN "none" ELSE ThrownBy(error)]

Reportable(table, u, share) ==
    IF InsertViolations(table, u, OrNull(share)) = {}
    THEN {NoError}
    ELSE InsertViolations(table, u, OrNull(share))

\* userProfileService.getByUserId: [data, thrown]
getByUserId(table, u, transport) ==
    IF transport # NoError THEN [data |-> NoData, thrown |-> transport.message]
    ELSE IF table[u] = NoRow THEN [data |-> NoData, thrown |-> "none"]
    ELSE [data |-> [user_id |-> u, row |-> table[u]], thrown |-> "none"]

\* userProfileService.getByShareId: [data, thrown]
getByShareId(table, share, transport) ==
    IF transport # NoError THEN [data |-> NoData, thrown |-> transport.message]
    ELSE IF \E u \in Users : table[u] # NoRow /\ table[u].share_id = share
    THEN LET owner == CHOOSE v \in Users : table[v] # NoRow /\ table[v].share_id = share
         IN  [data |-> [user_id |-> owner, row |-> table[owner]], thrown |-> "none"]
    ELSE [data |-> NoData, thrown |-> "none"]

\* userProfileService.banUser
banUser(table, u, isBanned, transport) ==
    update(table, u, [NoInput EXCEPT !.is_banned = IF isBanned THEN "true" ELSE "false"],
           transport)

RowChoices(u) ==
    {NoRow} \cup [share_id : {u, "yoga"}, name : {""}, is_banned : BOOLEAN,
                  events : {<<>>}, profile_photo_url : {null},
                  spotify_playlist_urls : {<<>>}, exists : {TRUE}]

UniqueShareIds(table) ==
    \A u, v \in Users :
        (u # v /\ table[u] # NoRow /\ table[v] # NoRow /\ table[u].share_id # null)
            => table[u].share_id # table[v].share_id

TableChoices ==
    { t \in [Users -> UNION { RowChoices(u) : u \in Users }] :
        /\ \A u \in Users : t[u] \in RowChoices(u)
        /\ UniqueShareIds(t) }

InitDb == user_profiles \in TableChoices

\* Other clients of the same database: another tab or another user loading
\* a profile (getOrCreate), saving a custom link, an administrator's ban.
OtherCreate ==
    /\ \E u \in Users :
          /\ user_profiles[u] = NoRow
          /\ \E reported \in Reportable(user_profiles, u, u) :
                user_profiles' = create(user_profiles,
                                        [user_id |-> u, name |-> "", share_id |-> u],
                                        NoError, reported).table
    /\ UNCHANGED notDb

OtherUpdate ==
    /\ \E u \in Users : \E share \in CustomSlugs \cup {u} :
          user_profiles' = update(user_profiles, u,
                                  [NoInput EXCEPT !.share_id = share], NoError).table
    /\ UNCHANGED notDb

\* A share_id written to the table by other means than the form (the SQL
\* editor): the column is TEXT, and only the form's input removes the
\* characters outside a-z, 0-9 and "-"
LegacySlug == "Yoga"

LegacyWrite ==
    /\ \E u \in Users :
          /\ user_profiles[u] # NoRow
          /\ ~HeldByOther(user_profiles, u, LegacySlug)
          /\ user_profiles' = [user_profiles EXCEPT ![u].share_id = LegacySlug]
    /\ UNCHANGED notDb

AdminBan ==
    /\ \E u \in Users, isBanned \in BOOLEAN :
          user_profiles' = banUser(user_profiles, u, isBanned, NoError).table
    /\ UNCHANGED notDb

\* ======================================================= AuthProvider.signIn
InitAuth ==
    /\ authPc = "idle"
    /\ authUser = "none"
    /\ authValid = FALSE
    /\ session = null
    /\ signInError = "none"
    /\ authSeen = [lookup |-> "none", banned |-> FALSE, signOut |-> "none"]

\* signIn(email, password) is called
SignInCall ==
    /\ authPc \in {"idle", "returned"}
    /\ \E u \in Users, valid \in BOOLEAN :
          /\ authUser' = u
          /\ authValid' = valid
    /\ authPc' = "password"
    /\ signInError' = "none"
    /\ authSeen' = [lookup |-> "none", banned |-> FALSE, signOut |-> "none"]
    /\ UNCHANGED <<session, dbvars, notAuth>>

\* await supabase.auth.signInWithPassword
PasswordResponse ==
    /\ authPc = "password"
    /\ \E transport \in {NoError, FetchError} :
          IF transport # NoError
          THEN /\ signInError' = transport.message
               /\ authPc' = "returned"
               /\ UNCHANGED session
          ELSE IF ~authValid
          THEN /\ signInError' = "Invalid login credentials"
               /\ authPc' = "returned"
               /\ UNCHANGED session
          ELSE /\ session' = authUser
               /\ authPc' = "banCheck"
               /\ UNCHANGED signInError
    /\ UNCHANGED <<authUser, authValid, authSeen, dbvars, notAuth>>

\* BanDecision without the ban check.
BanDecisionAllow(found) == "allow"

\* What signIn does with the outcome of getByUserId: "signOut" to sign the
\* banned user out, "allow" to return without an error.
BanDecision(found) ==
    IF found.thrown # "none" THEN "allow"
    ELSE IF found.data # NoData /\ found.data.row.is_banned = TRUE THEN "signOut"
    ELSE "allow"

\* await userProfileService.getByUserId(data.user.id)
BanCheckResponse ==
    /\ authPc = "banCheck"
    /\ \E transport \in Transports :
          LET found == getByUserId(user_profiles, authUser, transport)
          IN  /\ authSeen' = [authSeen EXCEPT
                    !.lookup = IF found.thrown # "none" THEN "error"
                               ELSE IF found.data = NoData THEN "null" ELSE "ok",
                    !.banned = (user_profiles[authUser] # NoRow
                                /\ user_profiles[authUser].is_banned)]
              /\ IF BanDecision(found) = "signOut"
                 THEN authPc' = "signOut" /\ UNCHANGED signInError
                 ELSE authPc' = "returned" /\ signInError' = "null"
    /\ UNCHANGED <<authUser, authValid, session, dbvars, notAuth>>

\* signIn after await supabase.auth.signOut(): the { error } it resolves
\* with is not inspected; a rejection is caught by the catch around the ban
\* check.
signOutSettled(outcome) ==
    IF outcome = "throws" THEN "null" ELSE BannedMessage

SignOutResponse ==
    /\ authPc = "signOut"
    /\ \E outcome \in {"ok", "error", "throws"} :
          /\ session' \in (IF outcome = "ok" THEN {null}
                           ELSE IF outcome = "error" THEN {session}
                           ELSE {session, null})
          /\ authSeen' = [authSeen EXCEPT !.signOut = outcome]
          /\ signInError' = signOutSettled(outcome)
    /\ authPc' = "returned"
    /\ UNCHANGED <<authUser, authValid, dbvars, notAuth>>

\* A session that exists is ended by the user or expires
SessionEnds ==
    /\ authPc \in {"idle", "returned"}
    /\ session # null
    /\ session' = null
    /\ UNCHANGED <<authPc, authUser, authValid, signInError, authSeen, dbvars, notAuth>>

NextAuth ==
    \/ SignInCall
    \/ PasswordResponse
    \/ BanCheckResponse
    \/ SignOutResponse
    \/ SessionEnds
    \/ AdminBan

\* ============================================================ PublicProfile
ShareIdChoices == {"u1", "yoga", "nobody"}

\* dbToLocalProfile; "" stands for an undefined shareId
dbToLocalProfile(data) ==
    [name |-> data.row.name,
     shareId |-> IF data.row.share_id = null THEN "" ELSE data.row.share_id]

\* loadProfile without "if (dbProfile.is_banned)".
loadProfileNoBanCheck(found) ==
    IF found.thrown # "none" \/ found.data = NoData
    THEN [profile |-> NoProfile, profileUserId |-> null]
    ELSE [profile |-> dbToLocalProfile(found.data), profileUserId |-> found.data.user_id]

\* What loadProfile stores for the outcome of getByShareId
loadProfile(found) ==
    IF found.thrown # "none" THEN [profile |-> NoProfile, profileUserId |-> null]
    ELSE IF found.data = NoData THEN [profile |-> NoProfile, profileUserId |-> null]
    ELSE IF found.data.row.is_banned THEN [profile |-> NoProfile, profileUserId |-> null]
    ELSE [profile |-> dbToLocalProfile(found.data), profileUserId |-> found.data.user_id]

Rendered ==
    IF ppLoading THEN "Loading profile..."
    ELSE IF ppProfile = NoProfile THEN "Profile not found"
    ELSE "Profile"

NoLoad == [outcome |-> "none", banned |-> FALSE]

\* mount with a share id; the effect starts loadProfile
InitPublic ==
    /\ shareId \in ShareIdChoices
    /\ loads = {shareId}
    /\ ppProfile = NoProfile
    /\ profileUserId = null
    /\ ppLoading = TRUE
    /\ lastLoad = NoLoad

\* the route changes to another profile: the effect runs again
Navigate ==
    /\ \E next \in ShareIdChoices \ {shareId} :
          /\ shareId' = next
          /\ loads' = loads \cup {next}
    /\ ppLoading' = TRUE
    /\ UNCHANGED <<ppProfile, profileUserId, lastLoad, dbvars, notPublic>>

\* await getByShareId(shareId) returns or throws, and loadProfile finishes
LoadResolve ==
    /\ \E requested \in loads, transport \in Transports :
          LET found == getByShareId(user_profiles, requested, transport)
              stored == loadProfile(found)
          IN  /\ ppProfile' = stored.profile
              /\ profileUserId' = stored.profileUserId
              /\ loads' = loads \ {requested}
              /\ lastLoad' = [outcome |-> IF found.thrown # "none" THEN "error"
                                          ELSE IF found.data = NoData THEN "missing"
                                          ELSE "found",
                              banned |-> (found.data # NoData /\ found.data.row.is_banned)]
    /\ ppLoading' = FALSE
    /\ UNCHANGED <<shareId, dbvars, notPublic>>

NextPublic ==
    \/ Navigate
    \/ LoadResolve
    \/ AdminBan
    \/ OtherUpdate

\* ================================================= Profile of its owner
Names == {"", "Ann"}
\* Slugs of 30 and of 31 characters
Slug30 == "abcdefghijklmnopqrstuvwxyz0123"
Slug31 == "abcdefghijklmnopqrstuvwxyz01234"
TypedSlugs == {"", "ab", "yoga", "zen", "zen-", Slug30, Slug31} \cup Users

\* slug.length
SlugLength(slug) ==
    CASE slug = "" -> 0
      [] slug = "ab" -> 2
      [] slug = "zen" -> 3
      [] slug = "yoga" -> 4
      [] slug = "zen-" -> 4
      [] slug = LegacySlug -> 4
      [] slug = Slug30 -> 30
      [] slug = Slug31 -> 31
      [] OTHER -> 36

\* uuidRegex.test: the ids of users are UUIDs, no other slug is
IsUuid(slug) == slug \in Users

\* /^[a-z0-9-]+$/.test
SlugCharsOk(slug) == slug \notin {"", LegacySlug}

\* slug.startsWith('-') || slug.endsWith('-')
HyphenAtEdge(slug) == slug = "zen-"

\* editedProfile.shareId?.trim(): no slug of the model has white space
trim(slug) == slug

isDefaultUserId(slug, uid) ==
    /\ slug # ""
    /\ uid # ""
    /\ slug = uid
    /\ IsUuid(slug)

\* validateSlug without the check of the first and last character.
validateSlugNoEdgeCheck(slug, uid) ==
    IF slug = "" THEN null
    ELSE IF isDefaultUserId(slug, uid) THEN null
    ELSE IF SlugLength(slug) < 3 THEN "Custom link must be at least 3 characters"
    ELSE IF SlugLength(slug) > 30 THEN "Custom link must be less than 30 characters"
    ELSE IF ~SlugCharsOk(slug)
    THEN "Custom link can only contain lowercase letters, numbers, and hyphens"
    ELSE null

validateSlug(slug, uid) ==
    IF slug = "" THEN null
    ELSE IF isDefaultUserId(slug, uid) THEN null
    ELSE IF SlugLength(slug) < 3 THEN "Custom link must be at least 3 characters"
    ELSE IF SlugLength(slug) > 30 THEN "Custom link must be less than 30 characters"
    ELSE IF ~SlugCharsOk(slug)
    THEN "Custom link can only contain lowercase letters, numbers, and hyphens"
    ELSE IF HyphenAtEdge(slug) THEN "Custom link cannot start or end with a hyphen"
    ELSE null

\* useState's default profile
DefaultProfile(uid) ==
    [name |-> "", shareId |-> uid, events |-> <<>>, profilePhotoUrl |-> "",
     spotifyPlaylistUrls |-> <<>>]

\* dbToLocalProfile of Profile; "" stands for undefined
ProfileDbToLocalProfile(data) ==
    [name |-> data.row.name,
     shareId |-> IF data.row.share_id = null THEN "" ELSE data.row.share_id,
     events |-> data.row.events,
     profilePhotoUrl |-> IF data.row.profile_photo_url = null
                         THEN "" ELSE data.row.profile_photo_url,
     spotifyPlaylistUrls |-> data.row.spotify_playlist_urls]

\* The class events the schedule editor hands to the handlers
EventIds == {"e1"}
Days == {0, 1}
ClassEvents == [id : EventIds, dayOfWeek : Days]

\* supabase.storage getPublicUrl(filePath)
PublicUrl(uid) == "https://storage/profile-photos/photo.png"

\* What the user types in a playlist input
TypedUrls == {"", "spotify:playlist:p1", "my playlist"}

\* spotifyPlaylistPattern.test
MatchesSpotifyPlaylistPattern(url) == url = "spotify:playlist:p1"

validateSpotifyPlaylistUrl(url) ==
    IF url = "" THEN null
    ELSE IF trim(url) = "" THEN null
    ELSE IF ~MatchesSpotifyPlaylistPattern(trim(url))
    THEN "Please enter a valid Spotify playlist URL (e.g., https://open.spotify.com/playlist/...)"
    ELSE null

\* urls.filter(url => url.trim())
NonBlank(urls) == SelectSeq(urls, LAMBDA url : trim(url) # "")

\* Object.keys(urlErrors).length > 0 in handleSave
HasUrlErrors(urls) ==
    \E i \in 1..Len(urls) : urls[i] # "" /\ validateSpotifyPlaylistUrl(urls[i]) # null

ProfileView ==
    [profile |-> profile, editedProfile |-> editedProfile, isEditing |-> isEditing,
     slugError |-> slugError, loading |-> loading]

StoreProfile(v) ==
    /\ profile' = v.profile
    /\ editedProfile' = v.editedProfile
    /\ isEditing' = v.isEditing
    /\ slugError' = v.slugError
    /\ loading' = v.loading

\* loadProfile after getOrCreate returned (found) or threw
loadOwnProfile(v, found) ==
    IF found.thrown # "none"
    THEN [v EXCEPT !.loading = FALSE]
    ELSE [v EXCEPT !.profile = ProfileDbToLocalProfile(found.data),
                   !.editedProfile = ProfileDbToLocalProfile(found.data),
                   !.loading = FALSE]

\* handleSave sending the trimmed custom link as it is, without "|| userId".
handleSaveNoDefault(v, uid) ==
    IF v.editedProfile.shareId # "" /\ validateSlug(v.editedProfile.shareId, uid) # null
    THEN [sent |-> FALSE,
          view |-> [v EXCEPT !.slugError = validateSlug(v.editedProfile.shareId, uid)],
          input |-> NoInput]
    ELSE IF HasUrlErrors(v.editedProfile.spotifyPlaylistUrls)
    THEN [sent |-> FALSE, view |-> v, input |-> NoInput]
    ELSE [sent |-> TRUE,
          view |-> [v EXCEPT !.slugError = null, !.loading = TRUE],
          input |-> [NoInput EXCEPT
                        !.name = v.editedProfile.name,
                        !.events = v.editedProfile.events,
                        !.share_id = trim(v.editedProfile.shareId),
                        !.spotify_playlist_urls =
                            NonBlank(v.editedProfile.spotifyPlaylistUrls)]]

\* handleSave up to its await; sent is FALSE when a validation stops it
\* (the playlist errors it then shows are not part of the model)
handleSave(v, uid) ==
    IF v.editedProfile.shareId # "" /\ validateSlug(v.editedProfile.shareId, uid) # null
    THEN [sent |-> FALSE,
          view |-> [v EXCEPT !.slugError = validateSlug(v.editedProfile.shareId, uid)],
          input |-> NoInput]
    ELSE IF HasUrlErrors(v.editedProfile.spotifyPlaylistUrls)
    THEN [sent |-> FALSE, view |-> v, input |-> NoInput]
    ELSE [sent |-> TRUE,
          view |-> [v EXCEPT !.slugError = null, !.loading = TRUE],
          input |-> [NoInput EXCEPT
                        !.name = v.editedProfile.name,
                        !.events = v.editedProfile.events,
                        !.share_id = IF trim(v.editedProfile.shareId) = ""
                                     THEN uid ELSE trim(v.editedProfile.shareId),
                        !.spotify_playlist_urls =
                            NonBlank(v.editedProfile.spotifyPlaylistUrls)]]

\* handleSaveSettled applying the edit whether or not update threw.
handleSaveSettledOptimistic(v, message) ==
    [v EXCEPT !.profile = v.editedProfile,
              !.isEditing = FALSE,
              !.loading = FALSE,
              !.slugError = IF message = "none" THEN @
                            ELSE IF message = "" THEN SaveFallbackMessage ELSE message]

\* handleSave after its await: message is what update threw, or "none"
handleSaveSettled(v, message) ==
    IF message = "none"
    THEN [v EXCEPT !.profile = v.editedProfile, !.isEditing = FALSE, !.loading = FALSE]
    ELSE [v EXCEPT !.slugError = IF message = "" THEN SaveFallbackMessage ELSE message,
                   !.loading = FALSE]

InitProfile ==
    /\ userId \in Users
    /\ pfPc = "getByUserId"
    /\ profile = DefaultProfile(userId)
    /\ editedProfile = DefaultProfile(userId)
    /\ isEditing = FALSE
    /\ slugError = null
    /\ loading = TRUE
    /\ updateCalls = 0
    /\ thrown = "none"

\* getOrCreate: await this.getByUserId(userId)
GetOrCreateGet ==
    /\ pfPc = "getByUserId"
    /\ \E transport \in Transports :
          LET found == getByUserId(user_profiles, userId, transport)
          IN  IF found.thrown = "none" /\ found.data = NoData
              THEN /\ pfPc' = "create"
                   /\ UNCHANGED <<profile, editedProfile, isEditing, slugError, loading>>
              ELSE /\ pfPc' = "idle"
                   /\ StoreProfile(loadOwnProfile(ProfileView, found))
    /\ UNCHANGED <<userId, updateCalls, thrown, dbvars, notProfile>>

\* getOrCreate: await this.create({ ..., share_id: userId })
GetOrCreateCreate ==
    /\ pfPc = "create"
    /\ \E transport \in Transports, reported \in Reportable(user_profiles, userId, userId) :
          LET r == create(user_profiles, [user_id |-> userId, name |-> "", share_id |-> userId],
                          transport, reported)
              found == [data |-> IF r.thrown = "none"
                                 THEN [user_id |-> userId, row |-> r.table[userId]]
                                 ELSE NoData,
                        thrown |-> r.thrown]
          IN  /\ user_profiles' = r.table
              /\ StoreProfile(loadOwnProfile(ProfileView, found))
    /\ pfPc' = "idle"
    /\ UNCHANGED <<userId, updateCalls, thrown, notProfile>>

CanClick == pfPc = "idle" /\ ~loading

handleEdit ==
    /\ CanClick
    /\ ~isEditing
    /\ editedProfile' = profile
    /\ isEditing' = TRUE
    /\ UNCHANGED <<userId, pfPc, profile, slugError, loading, updateCalls, thrown,
                   dbvars, notProfile>>

\* onChange of the "Custom Profile Link" input
ChangeShareId ==
    /\ CanClick
    /\ isEditing
    /\ \E value \in TypedSlugs :
          /\ value # editedProfile.shareId
          /\ editedProfile' = [editedProfile EXCEPT !.shareId = value]
    /\ slugError' = null
    /\ UNCHANGED <<userId, pfPc, profile, isEditing, loading, updateCalls, thrown,
                   dbvars, notProfile>>

\* onChange of the name input
ChangeName ==
    /\ CanClick
    /\ isEditing
    /\ \E value \in Names :
          /\ value # editedProfile.name
          /\ editedProfile' = [editedProfile EXCEPT !.name = value]
    /\ UNCHANGED <<userId, pfPc, profile, isEditing, slugError, loading, updateCalls,
                   thrown, dbvars, notProfile>>

handleCancel ==
    /\ CanClick
    /\ isEditing
    /\ editedProfile' = profile
    /\ slugError' = null
    /\ isEditing' = FALSE
    /\ UNCHANGED <<userId, pfPc, profile, loading, updateCalls, thrown, dbvars, notProfile>>

\* The Save button: handleSave runs to its await
HandleSaveClick ==
    /\ CanClick
    /\ isEditing
    /\ LET started == handleSave(ProfileView, userId)
       IN  /\ StoreProfile(started.view)
           /\ pfPc' = IF started.sent THEN "update" ELSE "idle"
           /\ updateCalls' = IF started.sent THEN 1 ELSE 0
    /\ thrown' = "none"
    /\ UNCHANGED <<userId, dbvars, notProfile>>

\* The update is executed by the database (or lost on the way) and
\* handleSave runs from its await to its end
HandleSaveResponse ==
    /\ pfPc = "update"
    /\ \E transport \in Transports :
          LET r == update(user_profiles, userId, handleSave(ProfileView, userId).input, transport)
          IN  /\ user_profiles' = r.table
              /\ thrown' = r.thrown
              /\ StoreProfile(handleSaveSettled(ProfileView, r.thrown))
    /\ pfPc' = "idle"
    /\ UNCHANGED <<userId, updateCalls, notProfile>>

\* ----- schedule events, photo and playlists of the edit form. A handler
\* that awaits leaves pfPc at the request it waits for; the form takes the
\* next click when the response has been handled.
HasEvent(events, id) == \E i \in 1..Len(events) : events[i].id = id

\* handleAddEvent up to its await
handleAddEvent ==
    /\ CanClick
    /\ isEditing
    /\ \E event \in ClassEvents :
          /\ ~HasEvent(editedProfile.events, event.id)
          /\ editedProfile' = [editedProfile EXCEPT !.events = Append(@, event)]
    /\ pfPc' = "events"
    /\ UNCHANGED <<userId, profile, isEditing, slugError, loading, updateCalls, thrown,
                   dbvars, notProfile>>

\* handleUpdateEvent up to its await
handleUpdateEvent ==
    /\ CanClick
    /\ isEditing
    /\ \E updatedEvent \in ClassEvents :
          /\ HasEvent(editedProfile.events, updatedEvent.id)
          /\ editedProfile' =
                [editedProfile EXCEPT !.events =
                    [i \in 1..Len(@) |-> IF @[i].id = updatedEvent.id
                                         THEN updatedEvent ELSE @[i]]]
    /\ pfPc' = "events"
    /\ UNCHANGED <<userId, profile, isEditing, slugError, loading, updateCalls, thrown,
                   dbvars, notProfile>>

\* handleDeleteEvent up to its await
handleDeleteEvent ==
    /\ CanClick
    /\ isEditing
    /\ \E eventId \in EventIds :
          /\ HasEvent(editedProfile.events, eventId)
          /\ editedProfile' =
                [editedProfile EXCEPT !.events = SelectSeq(@, LAMBDA e : e.id # eventId)]
    /\ pfPc' = "events"
    /\ UNCHANGED <<userId, profile, isEditing, slugError, loading, updateCalls, thrown,
                   dbvars, notProfile>>

\* The three event handlers from their await: update(userId, { events }),
\* then setProfile(updatedProfile), or console.error when update threw
AutoSaveResponse ==
    /\ pfPc = "events"
    /\ \E transport \in Transports :
          LET r == update(user_profiles, userId,
                          [NoInput EXCEPT !.events = editedProfile.events], transport)
          IN  /\ user_profiles' = r.table
              /\ profile' = IF r.thrown = "none" THEN editedProfile ELSE profile
    /\ pfPc' = "idle"
    /\ UNCHANGED <<userId, editedProfile, isEditing, slugError, loading, updateCalls,
                   thrown, notProfile>>

\* handlePhotoUpload up to its await, for an image file of at most 5 MB
handlePhotoUpload ==
    /\ CanClick
    /\ isEditing
    /\ pfPc' = "upload"
    /\ UNCHANGED <<userId, profile, editedProfile, isEditing, slugError, loading,
                   updateCalls, thrown, dbvars, notProfile>>

\* uploadProfilePhoto and handlePhotoUpload from its await: stored is
\* whether supabase.storage took the file
PhotoUploadResponse ==
    /\ pfPc = "upload"
    /\ \E stored \in BOOLEAN, transport \in Transports :
          LET r == IF stored
                   THEN update(user_profiles, userId,
                               [NoInput EXCEPT !.profile_photo_url = PublicUrl(userId)],
                               transport)
                   ELSE [table |-> user_profiles, thrown |-> "Failed to upload photo"]
              updatedProfile == [profile EXCEPT !.profilePhotoUrl = PublicUrl(userId)]
          IN  /\ user_profiles' = r.table
              /\ profile' = IF r.thrown = "none" THEN updatedProfile ELSE profile
              /\ editedProfile' = IF r.thrown = "none" THEN updatedProfile ELSE editedProfile
    /\ pfPc' = "idle"
    /\ UNCHANGED <<userId, isEditing, slugError, loading, updateCalls, thrown, notProfile>>

\* handlePhotoDelete up to its await, the confirm() accepted
handlePhotoDelete ==
    /\ CanClick
    /\ isEditing
    /\ profile.profilePhotoUrl # ""
    /\ pfPc' = "delete"
    /\ UNCHANGED <<userId, profile, editedProfile, isEditing, slugError, loading,
                   updateCalls, thrown, dbvars, notProfile>>

\* deleteProfilePhoto and handlePhotoDelete from its await
PhotoDeleteResponse ==
    /\ pfPc = "delete"
    /\ \E removed \in BOOLEAN, transport \in Transports :
          LET r == IF removed
                   THEN update(user_profiles, userId,
                               [NoInput EXCEPT !.profile_photo_url = null], transport)
                   ELSE [table |-> user_profiles, thrown |-> "Failed to delete photo"]
              updatedProfile == [profile EXCEPT !.profilePhotoUrl = ""]
          IN  /\ user_profiles' = r.table
              /\ profile' = IF r.thrown = "none" THEN updatedProfile ELSE profile
              /\ editedProfile' = IF r.thrown = "none" THEN updatedProfile ELSE editedProfile
    /\ pfPc' = "idle"
    /\ UNCHANGED <<userId, isEditing, slugError, loading, updateCalls, thrown, notProfile>>

\* handleAddSpotifyPlaylist for the text typed in the "new playlist" input
handleAddSpotifyPlaylist ==
    /\ CanClick
    /\ isEditing
    /\ Len(editedProfile.spotifyPlaylistUrls) < MaxPlaylists
    /\ \E newSpotifyUrl \in TypedUrls :
          /\ trim(newSpotifyUrl) # ""
          /\ validateSpotifyPlaylistUrl(trim(newSpotifyUrl)) = null
          /\ \A i \in 1..Len(editedProfile.spotifyPlaylistUrls) :
                editedProfile.spotifyPlaylistUrls[i] # trim(newSpotifyUrl)
          /\ editedProfile' = [editedProfile EXCEPT
                                  !.spotifyPlaylistUrls = Append(@, trim(newSpotifyUrl))]
    /\ UNCHANGED <<userId, pfPc, profile, isEditing, slugError, loading, updateCalls,
                   thrown, dbvars, notProfile>>

\* onChange of the input of a playlist of the list
ChangeSpotifyUrl ==
    /\ CanClick
    /\ isEditing
    /\ \E index \in 1..Len(editedProfile.spotifyPlaylistUrls), value \in TypedUrls :
          /\ value # editedProfile.spotifyPlaylistUrls[index]
          /\ editedProfile' = [editedProfile EXCEPT
                                  !.spotifyPlaylistUrls[index] = trim(value)]
    /\ UNCHANGED <<userId, pfPc, profile, isEditing, slugError, loading, updateCalls,
                   thrown, dbvars, notProfile>>

handleRemoveSpotifyPlaylist ==
    /\ CanClick
    /\ isEditing
    /\ \E index \in 1..Len(editedProfile.spotifyPlaylistUrls) :
          editedProfile' =
            [editedProfile EXCEPT
                !.spotifyPlaylistUrls =
                    SubSeq(@, 1, index - 1) \o SubSeq(@, index + 1, Len(@))]
    /\ UNCHANGED <<userId, pfPc, profile, isEditing, slugError, loading, updateCalls,
                   thrown, dbvars, notProfile>>

NextProfile ==
    \/ GetOrCreateGet
    \/ GetOrCreateCreate
    \/ handleEdit
    \/ ChangeShareId
    \/ ChangeName
    \/ handleCancel
    \/ HandleSaveClick
    \/ HandleSaveResponse
    \/ OtherCreate
    \/ OtherUpdate

\* ====================================================== pose_variations
PoseIds == {"p1", "p2"}
VariationIds == {"v1", "v2", "v3"}
\* transitional_cues IS NULL
NullCues == << <<"null">> >>
NoVariation == [pose_id |-> null, name |-> "", is_default |-> FALSE,
                transitional_cues |-> <<>>, exists |-> FALSE]

\* What a caller passes as isDefault; an update may leave it out
IsDefaultChoices == {"true", "false"}

\* appToDbVariation
\* appToDbVariation, and the DEFAULT of the column the insert leaves out
appToDbVariation(appVariation) ==
    [pose_id |-> appVariation.poseId, name |-> appVariation.name,
     is_default |-> appVariation.isDefault = "true",
     transitional_cues |-> <<>>, exists |-> TRUE]

\* poseVariationService.create: the database gives the row the id
poseVariationCreate(table, id, variation, failed) ==
    IF failed THEN table ELSE [table EXCEPT ![id] = appToDbVariation(variation)]

\* poseVariationService.update
poseVariationUpdate(table, id, updates, failed) ==
    IF failed \/ table[id] = NoVariation THEN table
    ELSE [table EXCEPT
            ![id].pose_id = IF updates.poseId = Undefined THEN @ ELSE updates.poseId,
            ![id].is_default = IF updates.isDefault = Undefined
                               THEN @ ELSE updates.isDefault = "true"]

\* poseVariationService.delete
poseVariationDelete(table, id, failed) ==
    IF failed THEN table ELSE [table EXCEPT ![id] = NoVariation]

Defaults(table, pose) ==
    { v \in VariationIds : table[v] # NoVariation /\ table[v].pose_id = pose
                             /\ table[v].is_default }

\* The table after the is_default migration: the first variation of each
\* pose that has one is its default
InitVariations ==
    /\ pose_variations \in [VariationIds -> {NoVariation}
                                \cup [pose_id : PoseIds, name : {"Default"},
                                       is_default : BOOLEAN,
                                       transitional_cues : {<<>>},
                                       exists : {TRUE}]]
    /\ \A pose \in PoseIds :
          IF \E v \in VariationIds : pose_variations[v] # NoVariation
                                      /\ pose_variations[v].pose_id = pose
          THEN Cardinality(Defaults(pose_variations, pose)) = 1
          ELSE TRUE

OffVariations == pose_variations = [v \in VariationIds |-> NoVariation]

VariationCreate ==
    /\ \E id \in VariationIds, poseId \in PoseIds, isDefault \in IsDefaultChoices,
          failed \in BOOLEAN :
          /\ pose_variations[id] = NoVariation
          /\ pose_variations' =
                poseVariationCreate(pose_variations, id,
                                    [poseId |-> poseId, name |-> "Default",
                                     isDefault |-> isDefault], failed)
    /\ UNCHANGED notVariations

VariationUpdate ==
    /\ \E id \in VariationIds, poseId \in PoseIds \cup {Undefined},
          isDefault \in IsDefaultChoices \cup {Undefined}, failed \in BOOLEAN :
          pose_variations' =
            poseVariationUpdate(pose_variations, id,
                                [poseId |-> poseId, isDefault |-> isDefault], failed)
    /\ UNCHANGED notVariations

VariationDelete ==
    /\ \E id \in VariationIds, failed \in BOOLEAN :
          pose_variations' = poseVariationDelete(pose_variations, id, failed)
    /\ UNCHANGED notVariations

NextVariations ==
    \/ VariationCreate
    \/ VariationUpdate
    \/ VariationDelete

\* ================================================== lib/llmService
\* A cue is the sequence of the words of its text: String(cue).trim()
\* .split(/\s+/). The empty text has no words in the model.
Providers == {"openai", "anthropic"}
CueChoices == { <<"Ground", "your", "feet">>, <<"Step", "your", "left", "foot">> }

\* What the fetch of the LLM leads to: a rejected fetch, a response that is
\* not OK, a body without the content, an empty content, a content that
\* JSON.parse rejects or parses to something else than an array, or a JSON
\* array of cues.
FailureKinds ==
    {"network error", "not ok", "no content", "empty content", "unparsable",
     "not an array"}
ArraysOfCues == UNION { [1..n -> CueChoices] : n \in 0..MaxArray }
Responses ==
    [kind : FailureKinds, cues : {<<>>}] \cup [kind : {"array"}, cues : ArraysOfCues]

\* words.slice(0, 3)
Slice3(words) == SubSeq(words, 1, IF Len(words) < 3 THEN Len(words) ELSE 3)

\* generateWithOpenAI returning the parsed cues as they are.
generateWithOpenAIUncut(response) ==
    IF response.kind # "array" \/ Len(response.cues) # 3
    THEN [thrown |-> TRUE, cues |-> <<>>]
    ELSE [thrown |-> FALSE, cues |-> response.cues]

\* generateWithOpenAI: thrown when the fetch rejects or the function throws
generateWithOpenAI(response) ==
    IF response.kind = "network error" THEN [thrown |-> TRUE, cues |-> <<>>]
    ELSE IF response.kind = "not ok" THEN [thrown |-> TRUE, cues |-> <<>>]
    ELSE IF response.kind \in {"no content", "empty content"}
    THEN [thrown |-> TRUE, cues |-> <<>>]
    ELSE IF response.kind = "unparsable" THEN [thrown |-> TRUE, cues |-> <<>>]
    ELSE IF response.kind = "not an array" \/ Len(response.cues) # 3
    THEN [thrown |-> TRUE, cues |-> <<>>]
    ELSE [thrown |-> FALSE,
          cues |-> [i \in 1..Len(response.cues) |-> Slice3(response.cues[i])]]

\* generateWithAnthropic: the same steps on the response of the other API
generateWithAnthropic(response) ==
    IF response.kind = "network error" THEN [thrown |-> TRUE, cues |-> <<>>]
    ELSE IF response.kind = "not ok" THEN [thrown |-> TRUE, cues |-> <<>>]
    ELSE IF response.kind \in {"no content", "empty content"}
    THEN [thrown |-> TRUE, cues |-> <<>>]
    ELSE IF response.kind = "unparsable" THEN [thrown |-> TRUE, cues |-> <<>>]
    ELSE IF response.kind = "not an array" \/ Len(response.cues) # 3
    THEN [thrown |-> TRUE, cues |-> <<>>]
    ELSE [thrown |-> FALSE,
          cues |-> [i \in 1..Len(response.cues) |-> Slice3(response.cues[i])]]

generateFallbackCues ==
    << <<"Ground", "your", "feet">>, <<"Engage", "your", "core">>,
       <<"Lift", "your", "arms">> >>

\* generateTransitionalCues: [rejected, cues] of the promise it returns
generateTransitionalCues(provider, response) ==
    LET generated == IF provider = "openai"
                     THEN generateWithOpenAI(response)
                     ELSE generateWithAnthropic(response)
    IN  IF generated.thrown
        THEN [rejected |-> FALSE, cues |-> generateFallbackCues]
        ELSE [rejected |-> FALSE, cues |-> generated.cues]

\* A call that has not settled
Pending == [rejected |-> FALSE, cues |-> << <<"pending">> >>]

InitCues ==
    call \in [provider : Providers, response : Responses, settled : {Pending}]

OffCues == call = [provider |-> "openai",
                   response |-> [kind |-> "network error", cues |-> <<>>],
                   settled |-> Pending]

\* The promise of generateTransitionalCues settles
GenerateSettles ==
    /\ call.settled = Pending
    /\ call' = [call EXCEPT !.settled = generateTransitionalCues(call.provider, call.response)]
    /\ UNCHANGED notCues

\* The next call, with another provider and another answer of the LLM
GenerateCall ==
    /\ call.settled # Pending
    /\ \E provider \in Providers, response \in Responses :
          call' = [provider |-> provider, response |-> response, settled |-> Pending]
    /\ UNCHANGED notCues

NextCues ==
    \/ GenerateSettles
    \/ GenerateCall

\* ---------------------------------------------------- batchGenerateCues
VariationInputs == [poseName : PoseIds, variationName : {"Default"}]
BatchInputs == UNION { [1..n -> VariationInputs] : n \in 0..MaxVariations }

\* `${poseName}::${variationName}`
Key(v) == <<v.poseName, v.variationName>>
Keys == { Key(v) : v \in VariationInputs }

\* A key the Map has no entry for
NoResult == << <<"none">> >>
NoRequest == -1

\* batchGenerateCues going on without the 500 ms.
batchAfterCuesNoDelay(i, total) == "progress"

\* The last statement of the try block of the loop: "delay" when it awaits
\* the 500 ms, "progress" when the loop goes on to onProgress
batchAfterCues(i, total) == IF i < total THEN "delay" ELSE "progress"

\* onProgress and the i++ of the loop, after iteration i at time now
BatchProgress(i, now) ==
    /\ batchI' = i + 1
    /\ batchPc' = IF i + 1 > Len(variations) THEN "resolved" ELSE "generate"
    /\ resolvedAt' = IF i + 1 > Len(variations) THEN now ELSE resolvedAt

\* A call batchGenerateCues(list, cfg) at time now: the loop starts
BatchStarted(list, cfg, now) ==
    /\ variations = list
    /\ config = cfg
    /\ batchI = 1
    /\ batchPc = IF list = <<>> THEN "resolved" ELSE "generate"
    /\ results = [k \in Keys |-> NoResult]
    /\ delayDue = 0
    /\ requests = <<>>
    /\ resolvedAt = IF list = <<>> THEN now ELSE NoRequest

InitBatch ==
    /\ cueClock = 0
    /\ \E list \in BatchInputs, cfg \in [provider : Providers] :
          BatchStarted(list, cfg, 0)

OffBatch ==
    /\ cueClock = 0
    /\ variations = <<>>
    /\ config = [provider |-> "openai"]
    /\ batchI = 1
    /\ batchPc = "off"
    /\ results = [k \in Keys |-> NoResult]
    /\ delayDue = 0
    /\ requests = <<>>
    /\ resolvedAt = NoRequest

\* generateTransitionalCues is called for variations[i]: the fetch starts
BatchRequest ==
    /\ batchPc = "generate"
    /\ requests' = Append(requests, [item |-> batchI, start |-> cueClock, end |-> NoRequest])
    /\ batchPc' = "await"
    /\ UNCHANGED <<cueClock, variations, config, batchI, results, delayDue, resolvedAt,
                   notBatch>>

\* The call settles: results.set(key, cues), then the delay or the next
\* iteration; a rejected call would go through the catch block
BatchResponse ==
    /\ batchPc = "await"
    /\ \E response \in Responses :
          LET settled == generateTransitionalCues(config.provider, response)
              key == Key(variations[batchI])
          IN  /\ results' = [results EXCEPT ![key] = IF settled.rejected
                                                      THEN generateFallbackCues
                                                      ELSE settled.cues]
              /\ requests' = [requests EXCEPT ![Len(requests)].end = cueClock]
              /\ IF ~settled.rejected
                    /\ batchAfterCues(batchI, Len(variations)) = "delay"
                 THEN /\ batchPc' = "delay"
                      /\ delayDue' = cueClock + RateLimitDelay
                      /\ UNCHANGED <<batchI, resolvedAt>>
                 ELSE /\ BatchProgress(batchI, cueClock)
                      /\ UNCHANGED delayDue
    /\ UNCHANGED <<cueClock, variations, config, notBatch>>

\* The timer of the delay fires, not before it is due
BatchDelayFires ==
    /\ batchPc = "delay"
    /\ cueClock >= delayDue
    /\ BatchProgress(batchI, cueClock)
    /\ UNCHANGED <<cueClock, variations, config, results, delayDue, requests, notBatch>>

\* 250 ms pass
CueTick ==
    /\ batchPc \in {"generate", "await", "delay"}
    /\ cueClock < MaxCueClock
    /\ cueClock' = cueClock + 1
    /\ UNCHANGED <<batchPc, variations, config, batchI, results, delayDue, requests,
                   resolvedAt, notBatch>>

NextBatch ==
    \/ BatchRequest
    \/ BatchResponse
    \/ BatchDelayFires
    \/ CueTick

\* ------------------------------- scripts/generate-transitional-cues.ts
\* .order('pose_id, name'): the rows of the table as a list of ids
Before(table, a, b) ==
    \/ table[a].pose_id # table[b].pose_id
         /\ (table[a].pose_id = "p1" \/ table[b].pose_id # "p1")
    \/ table[a].pose_id = table[b].pose_id
         /\ ((a = "v1" /\ b # "v1") \/ (a = "v2" /\ b = "v3"))

Selected(table) ==
    LET ids == { v \in VariationIds : table[v] # NoVariation }
    IN  CHOOSE list \in [1..Cardinality(ids) -> ids] :
            \A i, j \in 1..Cardinality(ids) : i < j => Before(table, list[i], list[j])

\* The filter that keeps every variation.
NeedsCuesAlways(row) == TRUE

\* The filter of variationsNeedingCues
NeedsCues(row) == row.transitional_cues = NullCues \/ Len(row.transitional_cues) = 0

\* v.poses?.name and v.name of a fetched row: a pose is named by its id
ToProcess(row) == [poseName |-> row.pose_id, variationName |-> row.name]

InitScript ==
    /\ scriptPc = "fetch"
    /\ fetched = [v \in VariationIds |-> NoVariation]
    /\ variationsToProcess = <<>>
    /\ saveI = 1
    /\ issued = <<>>

OffScript ==
    /\ scriptPc = "off"
    /\ fetched = [v \in VariationIds |-> NoVariation]
    /\ variationsToProcess = <<>>
    /\ saveI = 1
    /\ issued = <<>>

\* The tables the script may find: a variation has no cues (NULL or the
\* empty array) or three
InitCueTable ==
    /\ pose_variations \in [VariationIds -> {NoVariation}
                                \cup [pose_id : PoseIds, name : {"Default"},
                                       is_default : {FALSE},
                                       transitional_cues :
                                           {NullCues, <<>>, generateFallbackCues},
                                       exists : {TRUE}]]
    /\ pose_variations["v3"] = NoVariation

\* main from the query to the call of batchGenerateCues
ScriptFetch ==
    /\ scriptPc = "fetch"
    /\ \E variationsError \in BOOLEAN, llmProvider \in Providers :
          LET list == Selected(pose_variations)
              variationsNeedingCues ==
                  SelectSeq(list, LAMBDA v : NeedsCues(pose_variations[v]))
          IN  IF variationsError
              THEN /\ scriptPc' = "exit 1"
                   /\ UNCHANGED <<fetched, variationsToProcess, bvars>>
              ELSE IF list = <<>> \/ variationsNeedingCues = <<>>
              THEN /\ scriptPc' = "returned"
                   /\ fetched' = pose_variations
                   /\ UNCHANGED <<variationsToProcess, bvars>>
              ELSE /\ scriptPc' = "batch"
                   /\ fetched' = pose_variations
                   /\ variationsToProcess' = variationsNeedingCues
                   /\ variations' = [i \in 1..Len(variationsNeedingCues) |->
                                        ToProcess(pose_variations[variationsNeedingCues[i]])]
                   /\ config' = [provider |-> llmProvider]
                   /\ batchI' = 1
                   /\ batchPc' = "generate"
                   /\ results' = [k \in Keys |-> NoResult]
                   /\ requests' = <<>>
                   /\ resolvedAt' = NoRequest
                   /\ UNCHANGED <<cueClock, delayDue>>
    /\ UNCHANGED <<saveI, issued, pose_variations, notScript>>

\* One iteration of the saving loop, after batchGenerateCues has resolved
ScriptUpdate ==
    /\ scriptPc = "batch"
    /\ batchPc = "resolved"
    /\ LET id == variationsToProcess[saveI]
           cues == results[Key(ToProcess(fetched[id]))]
       IN  IF cues = NoResult \/ Len(cues) # 3
           THEN UNCHANGED <<pose_variations, issued>>
           ELSE /\ issued' = Append(issued, [id |-> id, cues |-> cues])
                /\ \E error \in BOOLEAN :
                      pose_variations' =
                        IF error \/ pose_variations[id] = NoVariation
                        THEN pose_variations
                        ELSE [pose_variations EXCEPT ![id].transitional_cues = cues]
    /\ saveI' = saveI + 1
    /\ scriptPc' = IF saveI + 1 > Len(variationsToProcess) THEN "returned" ELSE "batch"
    /\ UNCHANGED <<fetched, variationsToProcess, bvars, notScript>>

NextScript ==
    \/ ScriptFetch
    \/ ScriptUpdate
    \/ BatchRequest
    \/ BatchResponse
    \/ BatchDelayFires
    \/ CueTick


\* ----------------------------- the export script (poses and variations)
\* What the shell can put on the command line after `node script`
ArgChoices == {"--format", "csv", "json", ""}

RECURSIVE ArgLists(_)
ArgLists(n) ==
    IF n = 0 THEN {<<>>}
    ELSE ArgLists(n - 1)
         \cup {Append(a, x) : a \in {l \in ArgLists(n - 1) : Len(l) = n - 1},
                              x \in ArgChoices}

\* process.argv: the interpreter and the script precede the arguments
ProcessArgv == {<<"node", "export-poses-variations.ts">> \o a : a \in ArgLists(MaxArgs)}

\* An environment variable is unset, set to the empty string, or set
EnvValues == {"undefined", "", "set"}

\* JavaScript's falsy strings (undefined is written "undefined" here)
Falsy(s) == s \in {"undefined", ""}

\* Array.prototype.indexOf: the first position holding x (1-based here)
indexOf(list, x) == CHOOSE i \in 1..Len(list) :
                        list[i] = x /\ \A j \in 1..(i - 1) : list[j] # x

\* list[i] of JavaScript: undefined past the end
At(list, i) == IF i \in 1..Len(list) THEN list[i] ELSE "undefined"

\* The same with the position of --format itself
formatAtFlag(args) ==
    IF \E i \in 1..Len(args) : args[i] = "--format"
    THEN LET v == At(args, indexOf(args, "--format"))
         IN  IF Falsy(v) THEN "json" ELSE v
    ELSE "json"

\* const format = argv.includes('--format')
\*     ? argv[argv.indexOf('--format') + 1] || 'json' : 'json'
format(args) ==
    IF \E i \in 1..Len(args) : args[i] = "--format"
    THEN LET v == At(args, indexOf(args, "--format") + 1)
         IN  IF Falsy(v) THEN "json" ELSE v
    ELSE "json"

\* if (!supabaseUrl || !supabaseAnonKey)
MissingEnv(e) == Falsy(e.VITE_SUPABASE_URL) \/ Falsy(e.VITE_SUPABASE_ANON_KEY)

\* What the select on pose_variations can bring back, and a write that throws
FetchOutcomes == {"error", "null", "empty", "rows", "rows, write throws"}

InitExport ==
    /\ argv \in ProcessArgv
    /\ env \in [VITE_SUPABASE_URL : EnvValues, VITE_SUPABASE_ANON_KEY : EnvValues]
    /\ exportPc = "start"
    /\ contacted = FALSE
    /\ exitCode = 0
    /\ written = "none"

OffExport ==
    /\ argv = <<>>
    /\ env = [VITE_SUPABASE_URL |-> "undefined", VITE_SUPABASE_ANON_KEY |-> "undefined"]
    /\ exportPc = "off"
    /\ contacted = FALSE
    /\ exitCode = 0
    /\ written = "none"

\* The module body: the environment check, createClient, then exportData()
\* up to its await on the query
ExportStart ==
    /\ exportPc = "start"
    /\ IF MissingEnv(env)
       THEN /\ exportPc' = "exited"
            /\ exitCode' = 1
            /\ UNCHANGED contacted
       ELSE /\ exportPc' = "fetching"
            /\ contacted' = TRUE
            /\ UNCHANGED exitCode
    /\ UNCHANGED <<argv, env, written, notExport>>

\* The rest of exportData once the query has answered, and the .catch of
\* the call
ExportFetched ==
    /\ exportPc = "fetching"
    /\ \E outcome \in FetchOutcomes :
          /\ exitCode' = IF outcome \in {"error", "rows, write throws"} THEN 1 ELSE 0
          /\ written' = IF outcome = "rows"
                        THEN IF format(argv) = "csv" THEN "csv" ELSE "json"
                        ELSE "none"
    /\ exportPc' = "exited"
    /\ UNCHANGED <<argv, env, contacted, notExport>>

NextExport == ExportStart \/ ExportFetched


\* ------------------------------- the sequences table and sequenceService
SequenceIds == {"s1", "s2"}
Owners == {"u1", "u2"}
\* auth.uid() is NULL for a request without a session
Requesters == Owners \cup {"anon"}
SequenceShareIds == {"null", "seq_a"}

NoSequence == [id |-> "none", user_id |-> "none", share_id |-> "null",
               published_to_profile |-> FALSE, exists |-> FALSE]

\* USING (auth.uid() = user_id OR share_id IS NOT NULL)
UsingShareId(who, row) == who = row.user_id \/ row.share_id # "null"

\* USING (true)
UsingTrue(who, row) == TRUE

\* USING (auth.uid() = user_id OR published_to_profile = true); NULL = user_id
\* is not true
UsingPublished(who, row) == who = row.user_id \/ row.published_to_profile = TRUE

\* The three texts the repository has for the policy "Users can view their
\* own sequences"; each migration drops the policy and creates its own
Policies == {"share_id", "true", "published"}

\* The rows of the table a SELECT of this requester can see
Visible(table, pol, who) ==
    {table[s] : s \in {t \in SequenceIds :
        /\ table[t].exists
        /\ CASE pol = "share_id" -> UsingShareId(who, table[t])
             [] pol = "true" -> UsingTrue(who, table[t])
             [] pol = "published" -> UsingPublished(who, table[t])}}

\* .single(): the row when there is exactly one, else PGRST116, which the
\* service turns into null (no row returned)
Single(rows) == IF Cardinality(rows) = 1 THEN rows ELSE {}

\* select('*').eq('user_id', userId).order('name')
sequenceGetAll(table, pol, who, userIdArg) ==
    {r \in Visible(table, pol, who) : r.user_id = userIdArg}

\* select('*').eq('id', id).eq('user_id', userId).single()
sequenceGetById(table, pol, who, id, userIdArg) ==
    Single({r \in Visible(table, pol, who) : r.id = id /\ r.user_id = userIdArg})

\* select('*').eq('share_id', shareId).single()
sequenceGetByShareId(table, pol, who, share) ==
    Single({r \in Visible(table, pol, who) : r.share_id = share})

NoRead == [op |-> "none", by |-> "anon", policy |-> "published", rows |-> {}]

InitSequences ==
    /\ sequences = [s \in SequenceIds |-> NoSequence]
    /\ policy \in Policies
    /\ authUid = "anon"
    /\ read = NoRead

OffSequences ==
    /\ sequences = [s \in SequenceIds |-> NoSequence]
    /\ policy = "published"
    /\ authUid = "anon"
    /\ read = NoRead

\* A migration is run in the SQL editor
RunMigration ==
    /\ \E pol \in Policies : policy' = pol
    /\ UNCHANGED <<sequences, authUid, read, notSequences>>

\* A session starts or ends in this browser
SessionChange ==
    /\ \E who \in Requesters : authUid' = who
    /\ UNCHANGED <<sequences, policy, read, notSequences>>

\* sequenceService.create by the signed-in user
SequenceCreate ==
    /\ authUid # "anon"
    /\ \E s \in SequenceIds :
          /\ ~sequences[s].exists
          /\ sequences' = [sequences EXCEPT ![s] =
                 [id |-> s, user_id |-> authUid, share_id |-> "null",
                  published_to_profile |-> FALSE, exists |-> TRUE]]
    /\ UNCHANGED <<policy, authUid, read, notSequences>>

\* The owner publishes a sequence to the profile or takes it back
SequencePublish ==
    /\ \E s \in SequenceIds, flag \in BOOLEAN :
          /\ sequences[s].exists /\ sequences[s].user_id = authUid
          /\ sequences' = [sequences EXCEPT ![s].published_to_profile = flag]
    /\ UNCHANGED <<policy, authUid, read, notSequences>>

\* generateShareId and removeShareId; the column is UNIQUE
SequenceShare ==
    /\ \E s \in SequenceIds, share \in SequenceShareIds :
          /\ sequences[s].exists /\ sequences[s].user_id = authUid
          /\ share # "null" =>
                 \A t \in SequenceIds \ {s} : sequences[t].share_id # share
          /\ sequences' = [sequences EXCEPT ![s].share_id = share]
    /\ UNCHANGED <<policy, authUid, read, notSequences>>

ReadGetAll ==
    /\ \E userIdArg \in Owners :
          read' = [op |-> "getAll", by |-> authUid, policy |-> policy,
                   rows |-> sequenceGetAll(sequences, policy, authUid, userIdArg)]
    /\ UNCHANGED <<sequences, policy, authUid, notSequences>>

ReadGetById ==
    /\ \E id \in SequenceIds, userIdArg \in Owners :
          read' = [op |-> "getById", by |-> authUid, policy |-> policy,
                   rows |-> sequenceGetById(sequences, policy, authUid, id, userIdArg)]
    /\ UNCHANGED <<sequences, policy, authUid, notSequences>>

ReadGetByShareId ==
    /\ \E share \in SequenceShareIds \ {"null"} :
          read' = [op |-> "getByShareId", by |-> authUid, policy |-> policy,
                   rows |-> sequenceGetByShareId(sequences, policy, authUid, share)]
    /\ UNCHANGED <<sequences, policy, authUid, notSequences>>

NextSequences ==
    \/ RunMigration
    \/ SessionChange
    \/ SequenceCreate
    \/ SequencePublish
    \/ SequenceShare
    \/ ReadGetAll
    \/ ReadGetById
    \/ ReadGetByShareId


\* ---------------------------------------------- AuthProvider's effect
\* No signOut of the ban check has settled for any user
NoSignOut == [u \in Users |-> "none"]

\* The ban check of the effect without its signOut
backgroundBanCheckIgnored(found) == "ignore"

\* .then((profile) => { if (profile && profile.is_banned === true) signOut })
\* .catch(console.error): what the background check does with the lookup
backgroundBanCheck(found) ==
    IF found.thrown # "none" THEN "ignore"
    ELSE IF found.data # NoData /\ found.data.row.is_banned = TRUE THEN "signOut"
    ELSE "ignore"

\* supabase.auth.signOut().then(() => { setUser(null) }): the context's user
\* after the call has settled; a rejection skips the callback
banSignOutSettled(outcome, current) ==
    IF outcome = "throws" THEN current ELSE "none"

InitProvider ==
    /\ user = "none"
    /\ authLoading = TRUE
    /\ clientSession \in Users \cup {"none"}
    /\ providerPc = "getSession"
    /\ lookups = {}
    /\ signOuts = <<>>
    /\ authEvents = 0
    /\ foundBanned = {}
    /\ lastSignOut = NoSignOut

OffProvider ==
    /\ user = "none"
    /\ authLoading = TRUE
    /\ clientSession = "none"
    /\ providerPc = "off"
    /\ lookups = {}
    /\ signOuts = <<>>
    /\ authEvents = 0
    /\ foundBanned = {}
    /\ lastSignOut = NoSignOut

\* Every user has a profile row, banned or not
InitBanTable ==
    user_profiles \in [Users -> {[NoRow EXCEPT !.exists = TRUE, !.is_banned = b] :
                                    b \in BOOLEAN}]

\* The body shared by the getSession callback and the onAuthStateChange
\* listener: setUser(session?.user ?? null), setLoading(false), and the
\* background lookup when there is a session
Observe(s) ==
    /\ user' = s
    /\ authLoading' = FALSE
    /\ lookups' = IF s # "none" THEN lookups \cup {s} ELSE lookups
    /\ foundBanned' = foundBanned \ {s}

\* supabase.auth.getSession() settles
GetSessionSettles ==
    /\ providerPc = "getSession"
    /\ providerPc' = "listening"
    /\ \/ Observe(clientSession)
       \/ /\ user' = "none"
          /\ authLoading' = FALSE
          /\ UNCHANGED <<lookups, foundBanned>>
    /\ UNCHANGED <<clientSession, signOuts, authEvents, lastSignOut, dbvars, notProvider>>

\* SIGNED_IN: a new sign-in in this browser
SignedIn ==
    /\ providerPc # "off"
    /\ authEvents < MaxAuthEvents
    /\ authEvents' = authEvents + 1
    /\ \E u \in Users :
          /\ clientSession' = u
          /\ Observe(u)
    /\ lastSignOut' = NoSignOut
    /\ UNCHANGED <<providerPc, signOuts, dbvars, notProvider>>

\* INITIAL_SESSION, TOKEN_REFRESHED, USER_UPDATED: the listener is called
\* with the session the client holds
SessionEvent ==
    /\ providerPc # "off"
    /\ authEvents < MaxAuthEvents
    /\ authEvents' = authEvents + 1
    /\ Observe(clientSession)
    /\ UNCHANGED <<clientSession, providerPc, signOuts, lastSignOut, dbvars, notProvider>>

\* SIGNED_OUT by the user (the context's signOut, or another tab)
UserSignsOut ==
    /\ providerPc # "off"
    /\ authEvents < MaxAuthEvents
    /\ authEvents' = authEvents + 1
    /\ clientSession # "none"
    /\ clientSession' = "none"
    /\ Observe("none")
    /\ UNCHANGED <<providerPc, signOuts, lastSignOut, dbvars, notProvider>>

\* userProfileService.getByUserId(session.user.id) of the background check
\* settles
BanLookupSettles ==
    /\ \E u \in lookups, transport \in Transports :
          LET found == getByUserId(user_profiles, u, transport)
          IN  /\ lookups' = lookups \ {u}
              /\ signOuts' = IF backgroundBanCheck(found) = "signOut"
                             THEN Append(signOuts, u) ELSE signOuts
              /\ foundBanned' =
                     IF /\ found.thrown = "none"
                        /\ found.data # NoData
                        /\ found.data.row.is_banned
                     THEN foundBanned \cup {u} ELSE foundBanned
    /\ UNCHANGED <<user, authLoading, clientSession, providerPc, authEvents,
                   lastSignOut, dbvars, notProvider>>

\* supabase.auth.signOut() of the background check settles: it removes the
\* session and notifies the listener (SIGNED_OUT), or resolves with an
\* error and keeps the session, or rejects
BanSignOutSettles ==
    /\ signOuts # <<>>
    /\ signOuts' = Tail(signOuts)
    /\ \E outcome \in {"ok", "error", "throws"} :
          /\ lastSignOut' = [lastSignOut EXCEPT ![Head(signOuts)] = outcome]
          /\ clientSession' \in (IF outcome = "ok" THEN {"none"}
                                 ELSE IF outcome = "error" THEN {clientSession}
                                 ELSE {clientSession, "none"})
          /\ user' = banSignOutSettled(outcome,
                         IF clientSession' = "none" /\ clientSession # "none"
                         THEN "none" ELSE user)
    /\ UNCHANGED <<authLoading, providerPc, lookups, authEvents, foundBanned,
                   dbvars, notProvider>>

\* An admin bans or unbans a user
ProviderAdminBan ==
    /\ \E u \in Users, isBanned \in BOOLEAN :
          user_profiles' = banUser(user_profiles, u, isBanned, NoError).table
    /\ UNCHANGED <<gvars, notProvider>>

NextProvider ==
    \/ GetSessionSettles
    \/ SignedIn
    \/ SessionEvent
    \/ UserSignsOut
    \/ BanLookupSettles
    \/ BanSignOutSettles
    \/ ProviderAdminBan


\* ============================================================ pose images
\* poseVariationService.uploadImage and deleteImage over the pose-images
\* bucket and the image_url column.  A file path is the folder and the file
\* name, a file name is the variation id and the reading of Date.now().
ImageVariationIds == {"v1", "v2"}

NoPath == [folder |-> "none", variationId |-> "none", at |-> 0]

NullUrl == [bucketName |-> "null", path |-> NoPath]

\* `variations/${variationId}-${Date.now()}.${fileExt}`
filePathOf(variationId, now) ==
    [folder |-> "variations", variationId |-> variationId, at |-> now]

\* storage.from('pose-images').getPublicUrl(filePath)
getPublicUrl(filePath) == [bucketName |-> "pose-images", path |-> filePath]

\* deleteImage's path: what follows '/pose-images/' in the URL, put under
\* variations/ when it is not there already; NoPath for a URL without
\* '/pose-images/'
filePathIn(imageUrl) ==
    IF imageUrl.bucketName # "pose-images" THEN NoPath
    ELSE IF imageUrl.path.folder # "variations"
    THEN [imageUrl.path EXCEPT !.folder = "variations"]
    ELSE imageUrl.path

\* update(id, { imageUrl }): image_url becomes imageUrl || null unless the
\* request fails
imageUrlUpdate(urls, id, imageUrl, error) ==
    IF error THEN urls ELSE [urls EXCEPT ![id] = imageUrl]

InitImages ==
    /\ bucket = {}
    /\ image_url = [v \in ImageVariationIds |-> NullUrl]
    /\ imageCalls = {}
    /\ imageNow = 0
    /\ removeUnrecorded = FALSE

OffImages == InitImages

Settled(c, pc) == (imageCalls \ {c}) \cup {[c EXCEPT !.pc = pc]}

DateNowAdvances ==
    /\ imageNow < MaxImageClock
    /\ imageNow' = imageNow + 1
    /\ UNCHANGED <<bucket, image_url, imageCalls, removeUnrecorded, notImages>>

\* uploadImage up to its storage request
UploadImageCall ==
    \E v \in ImageVariationIds :
       LET c == [op |-> "upload", variationId |-> v,
                 filePath |-> filePathOf(v, imageNow), pc |-> "storage"]
       IN  /\ imageNow < MaxImageClock
           /\ Cardinality(imageCalls) < MaxImageCalls
           /\ c \notin imageCalls
           /\ imageCalls' = imageCalls \cup {c}
           /\ UNCHANGED <<bucket, image_url, imageNow, removeUnrecorded, notImages>>

\* The upload settles, later than the reading of Date.now() in its file
\* name: with upsert false an existing object is an error; on an error the
\* call throws, otherwise it goes on to the update
StorageUploadSettles ==
    \E c \in imageCalls, uploadError \in BOOLEAN :
       /\ c.op = "upload" /\ c.pc = "storage"
       /\ imageNow > c.filePath.at
       /\ c.filePath \in bucket => uploadError
       /\ IF uploadError
          THEN imageCalls' = imageCalls \ {c} /\ UNCHANGED bucket
          ELSE imageCalls' = Settled(c, "update") /\ bucket' = bucket \cup {c.filePath}
       /\ UNCHANGED <<image_url, imageNow, removeUnrecorded, notImages>>

\* The update of uploadImage settles; the call returns or throws
UploadUpdateSettles ==
    \E c \in imageCalls, error \in BOOLEAN :
       /\ c.op = "upload" /\ c.pc = "update"
       /\ image_url' = imageUrlUpdate(image_url, c.variationId,
                                      getPublicUrl(c.filePath), error)
       /\ imageCalls' = imageCalls \ {c}
       /\ UNCHANGED <<bucket, imageNow, removeUnrecorded, notImages>>

\* deleteImage with the variation's stored URL, up to its storage request
DeleteImageCall ==
    \E v \in ImageVariationIds :
       LET c == [op |-> "delete", variationId |-> v,
                 filePath |-> filePathIn(image_url[v]), pc |-> "storage"]
       IN  /\ image_url[v] # NullUrl
           /\ c.filePath # NoPath
           /\ Cardinality(imageCalls) < MaxImageCalls
           /\ c \notin imageCalls
           /\ imageCalls' = imageCalls \cup {c}
           /\ UNCHANGED <<bucket, image_url, imageNow, removeUnrecorded, notImages>>

\* The removal settles: on an error the call throws, otherwise the object
\* is gone and the call goes on to the update
StorageRemoveSettles ==
    \E c \in imageCalls, deleteError \in BOOLEAN :
       /\ c.op = "delete" /\ c.pc = "storage"
       /\ IF deleteError
          THEN imageCalls' = imageCalls \ {c} /\ UNCHANGED bucket
          ELSE imageCalls' = Settled(c, "update") /\ bucket' = bucket \ {c.filePath}
       /\ UNCHANGED <<image_url, imageNow, removeUnrecorded, notImages>>

\* The update of deleteImage settles; the call returns or throws
DeleteUpdateSettles ==
    \E c \in imageCalls, error \in BOOLEAN :
       /\ c.op = "delete" /\ c.pc = "update"
       /\ image_url' = imageUrlUpdate(image_url, c.variationId, NullUrl, error)
       /\ removeUnrecorded' = (removeUnrecorded \/ error)
       /\ imageCalls' = imageCalls \ {c}
       /\ UNCHANGED <<bucket, imageNow, notImages>>

NextImages ==
    \/ DateNowAdvances
    \/ UploadImageCall
    \/ StorageUploadSettles
    \/ UploadUpdateSettles
    \/ DeleteImageCall
    \/ StorageRemoveSettles
    \/ DeleteUpdateSettles

\* ======================================================== specifications
\* Each specification runs one part of the program and holds the others
\* in the state they have before they are used.
OffPlayback ==
    /\ clock = 0
    /\ mounted = FALSE
    /\ sequence = <<>>
    /\ speechSynthesisRef = FALSE
    /\ dirty = {}
    /\ clicks = 0
    /\ userOp = NoOp
    /\ owed = [item \in ItemIds |-> 0]
    /\ strayAnnounce = FALSE
    /\ isPlaying = FALSE
    /\ currentTime = 0
    /\ activeItemId = null
    /\ currentItemRemaining = 0
    /\ playbackSpeed = 2
    /\ intervalRef = 0
    /\ timelineRef = <<>>
    /\ lastUpdateTimeRef = 0
    /\ lastSpokenItemIdRef = null
    /\ activeItemIdRef = null
    /\ timers = <<>>
    /\ InitWatch

OffDb ==
    /\ user_profiles = [u \in Users |-> NoRow]

OffAuth == InitAuth

OffPublic ==
    /\ shareId = "none"
    /\ loads = {}
    /\ ppProfile = NoProfile
    /\ profileUserId = null
    /\ ppLoading = TRUE
    /\ lastLoad = NoLoad

OffProfile ==
    /\ userId = "none"
    /\ pfPc = "unmounted"
    /\ profile = DefaultProfile("")
    /\ editedProfile = DefaultProfile("")
    /\ isEditing = FALSE
    /\ slugError = null
    /\ loading = FALSE
    /\ updateCalls = 0
    /\ thrown = "none"

\* The parts that have a specification of their own are off in the others
OffLater == OffExport /\ OffSequences /\ OffProvider /\ OffImages

OffRest == OffVariations /\ OffCues /\ OffBatch /\ OffScript /\ OffLater

OffClient == OffPlayback /\ OffDb /\ OffAuth /\ OffPublic /\ OffProfile

Init ==
    InitPlayback /\ InitWatch /\ OffDb /\ OffAuth /\ OffPublic /\ OffProfile /\ OffRest

Next ==
    \/ PlayPauseClick /\ UNCHANGED wvars
    \/ ResetClick /\ UNCHANGED wvars
    \/ SpeedSelect /\ UNCHANGED wvars
    \/ SkipClick /\ UNCHANGED wvars
    \/ Tick /\ UNCHANGED wvars
    \/ Commit /\ UNCHANGED wvars
    \/ SpeakFire /\ UNCHANGED wvars
    \/ Unmount /\ UNCHANGED wvars
    \/ AdvanceClock /\ UNCHANGED wvars

Spec == Init /\ [][Next]_vars

\* Playback followed with the synthesizer and the last Play
SpecWatched == Init /\ [][NextWatched]_vars

InitSignIn == InitAuth /\ InitDb /\ OffPlayback /\ OffPublic /\ OffProfile /\ OffRest

SpecAuth == InitSignIn /\ [][NextAuth]_vars

InitPublicProfile == InitPublic /\ InitDb /\ OffPlayback /\ OffAuth /\ OffProfile /\ OffRest

SpecPublicProfile == InitPublicProfile /\ [][NextPublic]_vars

InitOwnProfile == InitProfile /\ InitDb /\ OffPlayback /\ OffAuth /\ OffPublic /\ OffRest

SpecProfile == InitOwnProfile /\ [][NextProfile]_vars

\* The owner's profile with the schedule and the photo: the profile does not exist
\* when the component mounts, so that getOrCreate creates it.
InitProfileSaves ==
    /\ InitOwnProfile
    /\ userId = "u1"
    /\ user_profiles[userId] = NoRow

NextProfileSaves ==
    \/ GetOrCreateGet
    \/ GetOrCreateCreate
    \/ handleEdit
    \/ ChangeShareId
    \/ handleCancel
    \/ HandleSaveClick
    \/ HandleSaveResponse
    \/ handleAddEvent
    \/ handleUpdateEvent
    \/ handleDeleteEvent
    \/ AutoSaveResponse
    \/ handlePhotoUpload
    \/ PhotoUploadResponse
    \/ handlePhotoDelete
    \/ PhotoDeleteResponse

SpecProfileSaves == InitProfileSaves /\ [][NextProfileSaves]_vars

\* The owner's profile with the custom link of the edit form; the stored
\* share_id may have been written by other means than the form.
InitCustomLink ==
    /\ InitOwnProfile
    /\ userId = "u1"
    /\ user_profiles["u2"] = NoRow

NextCustomLink ==
    \/ GetOrCreateGet
    \/ GetOrCreateCreate
    \/ handleEdit
    \/ ChangeShareId
    \/ handleCancel
    \/ HandleSaveClick
    \/ HandleSaveResponse
    \/ LegacyWrite

SpecCustomLink == InitCustomLink /\ [][NextCustomLink]_vars

\* The owner's profile with the playlists of the edit form
NextPlaylists ==
    \/ GetOrCreateGet
    \/ GetOrCreateCreate
    \/ handleEdit
    \/ handleCancel
    \/ HandleSaveClick
    \/ HandleSaveResponse
    \/ handleAddSpotifyPlaylist
    \/ ChangeSpotifyUrl
    \/ handleRemoveSpotifyPlaylist

SpecPlaylists == InitOwnProfile /\ [][NextPlaylists]_vars

\* The pose_variations table under the calls of poseVariationService
InitPoseVariations ==
    InitVariations /\ OffClient /\ OffCues /\ OffBatch /\ OffScript /\ OffLater

SpecVariations == InitPoseVariations /\ [][NextVariations]_vars

\* generateTransitionalCues on every answer of the LLM
InitGenerate ==
    InitCues /\ OffClient /\ OffVariations /\ OffBatch /\ OffScript /\ OffLater

SpecCues == InitGenerate /\ [][NextCues]_vars

\* One call of batchGenerateCues
InitBatchCall ==
    InitBatch /\ OffClient /\ OffVariations /\ OffCues /\ OffScript /\ OffLater

SpecBatch == InitBatchCall /\ [][NextBatch]_vars

\* One run of the cue-generation script
InitScriptRun ==
    InitScript /\ InitCueTable /\ OffBatch /\ OffClient /\ OffCues /\ OffLater

SpecScript == InitScriptRun /\ [][NextScript]_vars


\* One run of the export script
InitExportRun ==
    /\ InitExport /\ OffClient /\ OffVariations /\ OffCues /\ OffBatch /\ OffScript
    /\ OffSequences /\ OffProvider /\ OffImages

SpecExport == InitExportRun /\ [][NextExport]_vars


\* The sequences table under the reads of sequenceService
InitSequenceReads ==
    /\ InitSequences /\ OffClient /\ OffVariations /\ OffCues /\ OffBatch /\ OffScript
    /\ OffExport /\ OffProvider /\ OffImages

SpecSequences == InitSequenceReads /\ [][NextSequences]_vars


\* AuthProvider's effect; every request that was sent is answered
InitAuthProvider ==
    /\ InitProvider /\ InitBanTable
    /\ OffPlayback /\ OffAuth /\ OffPublic /\ OffProfile
    /\ OffVariations /\ OffCues /\ OffBatch /\ OffScript /\ OffExport /\ OffSequences
    /\ OffImages

SpecAuthProvider ==
    /\ InitAuthProvider /\ [][NextProvider]_vars
    /\ WF_vars(GetSessionSettles)
    /\ WF_vars(BanLookupSettles)
    /\ WF_vars(BanSignOutSettles)


\* The bucket and the image_url column under uploadImage and deleteImage
InitImageCalls ==
    /\ InitImages /\ OffClient /\ OffVariations /\ OffCues /\ OffBatch /\ OffScript
    /\ OffExport /\ OffSequences /\ OffProvider

SpecImages == InitImageCalls /\ [][NextImages]_vars

\* ======================================================= playback claims
Total == TotalDuration(flattenSequenceToTimeline(sequence))

TickIncrement == (clock - lastUpdateTimeRef) * playbackSpeed

TickHasActed == isPlaying /\ userOp.op # "none" /\ userOp.ticks = 1

\* C1 as stated: on every tick currentTime grows by exactly
\* (clock - lastUpdateTime) * playbackSpeed and lastUpdateTime becomes the
\* clock reading of the tick.
C1_TickAddsElapsedExactly ==
    [][Tick => /\ currentTime' = currentTime + TickIncrement
               /\ lastUpdateTimeRef' = clock]_vars

\* C1 amended: the same, except that a tick which would reach or pass the
\* total duration sets currentTime to the total duration.
C1_TickAddsElapsedUntilEnd ==
    [][Tick => /\ currentTime' = IF currentTime + TickIncrement >= Total
                                 THEN Total
                                 ELSE currentTime + TickIncrement
               /\ lastUpdateTimeRef' = clock]_vars

C1_Witness ==
    /\ TickHasActed
    /\ dirty # {}
    /\ lastUpdateTimeRef = clock
    /\ currentTime > 0
    /\ currentTime < Total

\* C2: while paused no step other than a viewer's own action changes
\* currentTime, and the first tick after Play adds at most the time elapsed
\* since Play was pressed, times playbackSpeed.
C2_PausedTimeNotCounted ==
    [][/\ (~isPlaying /\ clicks' = clicks) => currentTime' = currentTime
       /\ (Tick /\ userOp.op = "play" /\ userOp.ticks = 0)
             => currentTime' - currentTime <= (clock - userOp.at) * playbackSpeed]_vars

C2_Witness ==
    /\ TickHasActed
    /\ userOp.op = "play"
    /\ userOp.waited
    /\ userOp.at > 0
    /\ currentTime > 0
    /\ clicks >= 3

\* C3: 0 <= currentTime <= total duration always; a tick that would reach
\* or pass the total duration stops playback at exactly the total duration
\* with no active item and a countdown of 0.
C3_PositionWithinTimeline ==
    /\ [](currentTime >= 0 /\ currentTime <= Total)
    /\ [][(Tick /\ currentTime + TickIncrement >= Total)
             => /\ currentTime' = Total
                /\ ~isPlaying'
                /\ activeItemId' = null
                /\ currentItemRemaining' = 0]_vars

C3_Witness ==
    /\ sequence = <<4, 6, 2>>
    /\ currentTime = Total
    /\ ~isPlaying
    /\ activeItemId = null
    /\ currentItemRemaining = 0
    /\ dirty # {}

\* C4: a seek to t sets currentTime to t, activates the item whose interval
\* contains t with remaining endTime - t (or none, remaining 0), keeps
\* isPlaying and playbackSpeed, and the next tick adds at most the time
\* elapsed since the seek.
SeekResult(t) ==
    /\ currentTime' = t
    /\ isPlaying' = isPlaying
    /\ playbackSpeed' = playbackSpeed
    /\ \/ \E i \in 1..Len(timelineRef) :
             /\ Contains(timelineRef[i], t)
             /\ activeItemId' = timelineRef[i].id
             /\ currentItemRemaining' = timelineRef[i].endTime - t
       \/ /\ \A i \in 1..Len(timelineRef) : ~Contains(timelineRef[i], t)
          /\ activeItemId' = null
          /\ currentItemRemaining' = 0

C4_SeekSetsPosition ==
    [][/\ \A t \in SeekTargets : SkipClickTo(t) => SeekResult(t)
       /\ (Tick /\ userOp.op = "seek" /\ userOp.ticks = 0)
             => currentTime' - currentTime <= (clock - userOp.at) * playbackSpeed]_vars

C4_Witness ==
    /\ TickHasActed
    /\ userOp.op = "seek"
    /\ userOp.waited
    /\ currentTime > 4
    /\ activeItemId = "p2"

\* C5: there is never more than one interval timer, and once a render with
\* isPlaying = false has committed, or the view is unmounted, none is left.
C5_SingleTimerClearedWhenStopped ==
    /\ Cardinality(LiveIntervals(timers)) <= 1
    /\ ((~isPlaying \/ ~mounted) /\ dirty = {})
          => (LiveIntervals(timers) = {} /\ intervalRef = 0)

C5_Witness ==
    /\ userOp.op = "pause"
    /\ dirty = {}
    /\ clock > userOp.at
    /\ currentTime > 0
    /\ LiveIntervals(timers) = {}

\* C6: during playback with speech synthesis available no pose name is
\* announced more often than its item became the active one (Play pressed at
\* time 0, a tick that changes the active item, a seek while playing): each
\* activation is announced once, and not again.
C6_AnnouncedOncePerActivation == ~strayAnnounce

\* ========================================================= sign-in claims
SignInReturned == authPc = "returned" /\ authSeen.lookup # "none"

Shown(load) == load.outcome = "found" /\ ~load.banned

\* C8: the profile content is rendered only if getByShareId returned a
\* profile that is not banned; when a load ends with a banned profile, no
\* profile or an error, "Profile not found" is rendered; loading is false
\* when a load has ended.
C8_BannedProfileHidden ==
    /\ [](ppProfile # NoProfile => Shown(lastLoad))
    /\ [][LoadResolve => /\ ~ppLoading'
                         /\ Rendered' = IF Shown(lastLoad')
                                        THEN "Profile" ELSE "Profile not found"]_vars

C8_Witness ==
    /\ lastLoad.outcome = "found"
    /\ lastLoad.banned
    /\ ~ppLoading
    /\ loads = {}
    /\ Rendered = "Profile not found"

\* ===================================================== own profile claims
SaveFailed == HandleSaveResponse /\ thrown' # "none"

SaveFailureFrame ==
    /\ profile' = profile
    /\ isEditing'
    /\ editedProfile' = editedProfile
    /\ ~loading'
    /\ pfPc' = "idle"
    /\ updateCalls' = 1

\* C9 as stated: when the update of handleSave fails, the message of the
\* error is placed in slugError, the displayed profile is unchanged, edit
\* mode stays open with the edited values, loading is false again and the
\* update was attempted once.
C9_SaveFailureSurfaced ==
    [][SaveFailed => (slugError' = thrown' /\ SaveFailureFrame)]_vars

\* C9 amended: the same, with slugError holding "Failed to save profile.
\* Please try again." when the error has no message.
C9_SaveFailureSurfacedOrFallback ==
    [][SaveFailed => /\ slugError' = IF thrown' = "" THEN SaveFallbackMessage ELSE thrown'
                     /\ SaveFailureFrame]_vars

C9_Witness ==
    /\ pfPc = "idle"
    /\ thrown = FetchError.message
    /\ slugError = FetchError.message
    /\ isEditing
    /\ editedProfile.name # profile.name
    /\ ~loading
    /\ updateCalls = 1

Rejected(result, table) == result.thrown = TakenMessage /\ result.table = table

ShareOnly(share) == [NoInput EXCEPT !.share_id = share]

\* C10: no two profiles hold the same non-null share_id, and in every
\* state an update or a create that reaches the database with a share_id
\* another user's profile holds throws 'This custom link is already taken.
\* Please choose another.' and leaves the stored profiles as they are.
C10_ShareIdsStayUnique ==
    /\ UniqueShareIds(user_profiles)
    /\ \A u \in Users, share \in CustomSlugs \cup Users :
          HeldByOther(user_profiles, u, share) =>
             IF user_profiles[u] # NoRow
             THEN Rejected(update(user_profiles, u, ShareOnly(share), NoError), user_profiles)
             ELSE \A reported \in Reportable(user_profiles, u, share) :
                     Rejected(create(user_profiles,
                                     [user_id |-> u, name |-> "", share_id |-> share],
                                     NoError, reported), user_profiles)

C10_Witness ==
    /\ pfPc = "idle"
    /\ thrown = TakenMessage
    /\ slugError = TakenMessage
    /\ isEditing
    /\ HeldByOther(user_profiles, userId, editedProfile.shareId)
    /\ profile.shareId # editedProfile.shareId

\* ================================================== claims of the edit form
\* The row of the signed-in user
OwnRow == user_profiles[userId]

\* HandleSaveResponse took a step in which update returned
SaveReturned == pfPc = "update" /\ pfPc' = "idle" /\ thrown' = "none"

\* C11: a profile created through getOrCreate keeps a share_id that is not
\* null through handleSave, the auto-saves of schedule events and the upload
\* and deletion of the photo, and a save with an empty custom link stores the
\* user's id as share_id.
C11_ShareIdNeverNull ==
    /\ [](OwnRow # NoRow => OwnRow.share_id # null)
    /\ [][(SaveReturned /\ trim(editedProfile.shareId) = "")
            => user_profiles'[userId].share_id = userId]_vars

\* An empty custom link was saved after an event was auto-saved and a photo
\* uploaded
C11_Witness ==
    /\ pfPc = "idle"
    /\ updateCalls = 1
    /\ thrown = "none"
    /\ ~isEditing
    /\ profile.shareId = ""
    /\ OwnRow # NoRow
    /\ OwnRow.share_id = userId
    /\ OwnRow.events # <<>>
    /\ OwnRow.profile_photo_url # null

\* C17: when handleSave completes successfully, the stored row's
\* spotify_playlist_urls is the list of the non-blank playlist URLs of the
\* edited profile.
C17_PlaylistsStored ==
    [][SaveReturned
        => user_profiles'[userId].spotify_playlist_urls
             = NonBlank(editedProfile.spotifyPlaylistUrls)]_vars

\* The custom links the claim lets through
Acceptable(slug, uid) ==
    \/ slug = ""
    \/ slug = uid /\ IsUuid(slug)
    \/ /\ SlugLength(slug) >= 3
       /\ SlugLength(slug) <= 30
       /\ SlugCharsOk(slug)
       /\ ~HyphenAtEdge(slug)

C12_OneDefaultPerPose ==
    \A pose \in PoseIds : Cardinality(Defaults(pose_variations, pose)) <= 1

\* =========================================== claims of the cue generation
\* The LLM failed: network error, non-OK response, empty content,
\* unparsable JSON, or an array whose length is not 3
LlmFailed(response) ==
    \/ response.kind \in {"network error", "not ok", "empty content", "unparsable"}
    \/ response.kind = "array" /\ Len(response.cues) # 3

\* C13: generateTransitionalCues never rejects and resolves to exactly 3
\* cues of at most 3 words each, the three fallback cues when the LLM failed.
C13_ThreeShortCues ==
    call.settled # Pending
        => /\ ~call.settled.rejected
           /\ Len(call.settled.cues) = 3
           /\ \A i \in 1..Len(call.settled.cues) : Len(call.settled.cues[i]) <= 3
           /\ LlmFailed(call.response) => call.settled.cues = generateFallbackCues

\* The LLM answered with three cues, one of them of four words
C13_Witness ==
    /\ call.settled # Pending
    /\ call.response.kind = "array"
    /\ Len(call.response.cues) = 3
    /\ \E i \in 1..3 : Len(call.response.cues[i]) = 4
    /\ call.settled.cues # generateFallbackCues

\* C14: batchGenerateCues issues the LLM requests one at a time in input
\* order, starts no request before the previous one has completed, waits
\* 500 ms between two consecutive requests and does not wait after the last.
C14_OneRequestAtATime ==
    /\ \A k \in 1..Len(requests) :
          /\ requests[k].item = k
          /\ k > 1 => /\ requests[k - 1].end # NoRequest
                       /\ requests[k].start >= requests[k - 1].end + RateLimitDelay
    /\ (batchPc = "resolved" /\ variations # <<>>)
          => /\ Len(requests) = Len(variations)
             /\ resolvedAt = requests[Len(requests)].end

\* A batch of two variations has resolved
C14_Witness ==
    /\ batchPc = "resolved"
    /\ Len(requests) = 2
    /\ requests[2].start = requests[1].end + RateLimitDelay
    /\ resolvedAt = requests[2].end

\* What the script fetched for a variation had cues
HadCues(id) ==
    /\ fetched[id] # NoVariation
    /\ fetched[id].transitional_cues # NullCues
    /\ fetched[id].transitional_cues # <<>>

\* C19: the script issues a transitional_cues update only for variations
\* whose transitional_cues was null or an empty array when fetched, every
\* update writes exactly 3 cues, and a variation that had cues is not modified.
C19_OnlyMissingCuesWritten ==
    /\ \A k \in 1..Len(issued) :
          /\ ~HadCues(issued[k].id)
          /\ Len(issued[k].cues) = 3
    /\ \A id \in VariationIds :
          (scriptPc \in {"batch", "returned"} /\ HadCues(id))
              => pose_variations[id] = fetched[id]

\* The script has returned after it wrote the cues of one variation and
\* left those of another, which had cues, as they were
C19_Witness ==
    /\ scriptPc = "returned"
    /\ Len(issued) = 1
    /\ HadCues("v1")
    /\ fetched["v2"].transitional_cues = NullCues
    /\ pose_variations["v2"].transitional_cues # NullCues
    /\ Len(pose_variations["v2"].transitional_cues) = 3

\* ------------------------------------------------------- the export script
\* The first --format on the command line is followed by exactly csv
CsvAsked ==
    \E i \in 3..(Len(argv) - 1) :
        /\ argv[i] = "--format"
        /\ \A j \in 3..(i - 1) : argv[j] # "--format"
        /\ argv[i + 1] = "csv"

\* C15 as stated: a finished run has written a CSV file exactly when csv
\* follows --format and a JSON file otherwise, and with a Supabase variable
\* missing it has exited with status 1 without contacting the database.
C15_FormatDecidesFile ==
    exportPc = "exited" =>
        /\ written = "csv" <=> CsvAsked
        /\ ~CsvAsked => written = "json"
        /\ MissingEnv(env) => exitCode = 1 /\ ~contacted

\* C15 amended: a run that writes a file writes a CSV file exactly when csv
\* follows the first --format and a JSON file otherwise; a run writes no
\* file when a variable is missing, the query fails or returns no rows, or
\* the write throws; with a variable missing it exits with status 1 and has
\* never contacted the database.
C15_FormatDecidesWrittenFile ==
    /\ written # "none" =>
           /\ exportPc = "exited" /\ ~MissingEnv(env) /\ exitCode = 0
           /\ written = (IF CsvAsked THEN "csv" ELSE "json")
    /\ MissingEnv(env) => ~contacted /\ written = "none"
    /\ exportPc = "exited" /\ MissingEnv(env) => exitCode = 1

C15_Witness ==
    /\ exportPc = "exited"
    /\ written = "csv"
    /\ argv[Len(argv)] = "--format"

SignedOut(u) == clientSession # u /\ user # u

\* After a signOut of the ban check that removed the session, the context's
\* user is null until a new sign-in
StaysOut == (\E u \in Users : lastSignOut[u] = "ok") => user = "none"

ResetRendered ==
    /\ ~isPlaying'
    /\ currentTime' = 0
    /\ activeItemId' = null
    /\ currentItemRemaining' = 0
    /\ lastSpokenItemIdRef' = null
    /\ utterance' = null

\* A reset has been handled and its effects have run
ResetSettled == mounted /\ userOp.op = "reset" /\ dirty = {}

FirstItemActive ==
    /\ Len(timelineRef) > 0
    /\ activeItemId = timelineRef[1].id
    /\ currentItemRemaining = timelineRef[1].endTime

\* The Play that follows a reset starts at the first item with the marker
\* cleared, its effects schedule the announcement of the first item, and
\* until the first tick that announcement is pending or made
ReplayStartsAtFirstItem ==
    /\ [][(WatchedPlayPause /\ userOp.op = "reset" /\ Len(sequence) > 0)
             => /\ isPlaying'
                /\ currentTime' = 0
                /\ activeItemId' = "p1"
                /\ lastSpokenItemIdRef' = null]_vars
    /\ [](( /\ userOp.op = "play" /\ userOp.ticks = 0 /\ dirty = {} /\ mounted
            /\ playedFrom.on /\ playedFrom.from = 0
            /\ speechSynthesisRef /\ Len(sequence) > 0)
             => \/ \E i \in PendingSpeech(timers) : timers[i].item = "p1"
                \/ lastSpokenItemIdRef = "p1")

WallClockPosition ==
    LET t == playedFrom.from + (clock - playedFrom.at) * playbackSpeed
    IN  IF t >= Total THEN Total ELSE t

\* C22: while playback runs from a Play without pause, seek, reset or speed
\* change, the position after every tick is the position at that Play plus
\* the time elapsed since it multiplied by playbackSpeed, or the total
\* duration once that is reached.
C22_PositionFollowsWallClock ==
    [][(WatchedTick /\ playedFrom.on) => currentTime' = WallClockPosition]_vars

\* ------------------------------------------- announcements while stopped
\* C23: after handlePlayPause has paused playback or handleReset has run,
\* and until playback is started again, no scheduled speakPoseName call
\* makes the synthesizer start an announcement.
C23_NoAnnouncementWhileStopped ==
    [][(WatchedSpeak /\ ~isPlaying /\ userOp.op \in {"pause", "reset"})
          => utterance' = utterance]_vars

\* ------------------------------------------------- stored image URLs
\* C24: when no uploadImage or deleteImage call is in progress, whether the
\* calls so far returned or threw, every non-null image_url names an object
\* that is in the pose-images bucket.
C24_ImageUrlNamesStoredObject ==
    imageCalls = {}
       => \A v \in ImageVariationIds :
             image_url[v] # NullUrl => filePathIn(image_url[v]) \in bucket

\* The same as long as no deleteImage call has thrown after its removal
C24_HoldsWhileRemovalsRecorded ==
    (imageCalls = {} /\ ~removeUnrecorded)
       => \A v \in ImageVariationIds :
             image_url[v] # NullUrl => filePathIn(image_url[v]) \in bucket

====
